---- MODULE Spec2Model ----
(***************************************************************************)
(* Object-tree dispatch engine of libsystemd-bus (bus-objects.c): the node *)
(* store with its two member indices, the registration API, the access     *)
(* check and the dispatch loop of bus_process_object with user callbacks   *)
(* that re-enter the registration API.                                     *)
(***************************************************************************)
EXTENDS Integers, Sequences, FiniteSets, TLC

VARIABLES
    bus,        \* sd_bus: nodes, vtable_methods, vtable_properties, nodes_modified,
                \*         iteration_counter, trusted, is_kernel
    pc,         \* position of bus_process_object ("idle" when no message is dispatched)
    msg,        \* the message being dispatched (path, interface, member, arguments, sender)
    fr,         \* the locals of the running dispatch (prefix cursor, list cursor, r, ...)
    obs,        \* what the dispatch did so far (handlers invoked, replies sent, lookups)
    ret,        \* return value of the last API call
    cbops,      \* API calls made by user callbacks during the running dispatch
    out,        \* the signal the last emitter call sent
    access      \* the last call of check_access: its arguments and its result

vars == <<bus, pc, msg, fr, obs, ret, cbops, out, access>>

----------------------------------------------------------------------------
(* Bounds of the model *)

MaxLive == 2        \* registrations alive at once (callbacks, vtables, enumerators, markers)
MaxCbOps == 2       \* registration calls user callbacks make during one dispatch
MaxIter == 1        \* messages dispatched (cap of iteration_counter)

(* errno values *)
EINVAL == 22
EEXIST == 17
EPROTOTYPE == 91
ENOENT == 2
EDOM == 33
EACCES == 13
ENODATA == 61
CAP_SYS_ADMIN == 21
CAP_NET_ADMIN == 12
CAP_KILL == 5

----------------------------------------------------------------------------
(* Object paths are character strings *)

Root == <<"/">>
PA   == <<"/", "a">>
PAB  == <<"/", "a", "/", "b">>
Paths == {Root, PA, PAB}
NoPath == <<>>

streq(a, b) == a = b

\* offset of the last occurrence of ch in s (e - s for e = strrchr(s, ch))
strrchr(s, ch) ==
    (CHOOSE i \in 1..Len(s) : s[i] = ch /\ \A j \in (i+1)..Len(s) : s[j] # ch) - 1

MAX(a, b) == IF a > b THEN a ELSE b

strndupa(s, n) == SubSeq(s, 1, IF n < Len(s) THEN n ELSE Len(s))

\* the parent path bus_node_allocate computes: strndupa(path, MAX(1, path - e))
alloc_parent(path) ==
    LET e == strrchr(path, "/") IN strndupa(path, MAX(1, 0 - e))

\* OBJECT_PATH_FOREACH_PREFIX: the proper prefixes of path, longest first
RECURSIVE object_path_prefixes(_)
object_path_prefixes(path) ==
    IF streq(path, Root) THEN <<>>
    ELSE LET e == strrchr(path, "/")
             p == IF e = 0 THEN Root ELSE SubSeq(path, 1, e)
         IN  <<p>> \o object_path_prefixes(p)

----------------------------------------------------------------------------
(* Interfaces, members, signatures, vtables (caller-owned static data) *)

IfProperties     == "org.freedesktop.DBus.Properties"
IfIntrospectable == "org.freedesktop.DBus.Introspectable"
IfPeer           == "org.freedesktop.DBus.Peer"
IfObjectManager  == "org.freedesktop.DBus.ObjectManager"

BasicTypes == {"y", "b", "n", "q", "i", "u", "x", "t", "d", "s", "o", "g", "h"}

bus_type_is_basic(c) == c \in BasicTypes

\* length of the single complete type starting at sig[i], 0 if there is none
RECURSIVE single_len(_, _)
single_len(sig, i) ==
    IF i > Len(sig) THEN 0
    ELSE IF sig[i] \in BasicTypes \cup {"v"} THEN 1
    ELSE IF sig[i] = "a"
         THEN LET k == single_len(sig, i + 1) IN IF k = 0 THEN 0 ELSE k + 1
    ELSE 0

signature_is_single(sig) == Len(sig) > 0 /\ single_len(sig, 1) = Len(sig)

RECURSIVE signature_from(_, _)
signature_from(sig, i) ==
    IF i > Len(sig) THEN TRUE
    ELSE LET k == single_len(sig, i) IN k > 0 /\ signature_from(sig, i + k)

signature_is_valid(sig) == signature_from(sig, 1)

member_name_is_valid(s) == s \notin {"", "1bad", "a.b"}

interface_name_is_valid(s) == s \notin {"", "nodots"}

first_char(sig) == IF Len(sig) = 0 THEN "" ELSE sig[1]

Entry(type, member, signature, result, handler, get, set, flags, cap) ==
    [type |-> type, member |-> member, signature |-> signature, result |-> result,
     handler |-> handler, get |-> get, set |-> set, flags |-> flags, cap |-> cap,
     element_size |-> "sizeof(struct sd_bus_vtable)"]

\* SD_BUS_VTABLE_START(flags) with the element size of this build
Start(flags, cap) == Entry("START", "", <<>>, <<>>, FALSE, FALSE, FALSE, flags, cap)

\* The vtable arrays the callers of this model own, without the END entry.
\* vtM:  method M(s), writable property P with a setter, capability CAP_NET_ADMIN
\* vtQ:  a second vtable for the same interface: property Q and a method M
\*       whose member collides with vtM's
\* vtU:  an unprivileged method M and an unprivileged writable property P
\* vtBad: breaks a structural rule after a well-formed property P
\* vtHidden: a vtable flagged SD_BUS_VTABLE_HIDDEN with a property H
\* Further arrays for the structural rules of add_object_vtable_internal:
\* vtS keeps every rule with entries of every kind; each other array breaks
\* the one rule its name says, after a well-formed method N where it is not the
\* first entry that is at fault
MoreVtables ==
    LET N == Entry("METHOD", "N", <<>>, <<>>, FALSE, FALSE, FALSE, {}, 0)
        Method(member, sig, res, handler, flags) ==
            << Start({}, 0), N, Entry("METHOD", member, sig, res, handler, FALSE, FALSE, flags, 0) >>
        Property(type, member, sig, get, set, flags) ==
            << Start({}, 0), N, Entry(type, member, sig, <<>>, FALSE, get, set, flags, 0) >>
        Signal(member, sig, flags) ==
            << Start({}, 0), N, Entry("SIGNAL", member, sig, <<>>, FALSE, FALSE, FALSE, flags, 0) >>
    IN
    [ vtS |-> << Start({}, 0), N,
                 Entry("PROPERTY", "R", <<"a", "s">>, <<>>, FALSE, FALSE, FALSE, {}, 0),
                 Entry("WRITABLE_PROPERTY", "W", <<"a", "i">>, <<>>, FALSE, TRUE, TRUE, {}, 0),
                 Entry("SIGNAL", "S", <<"s">>, <<>>, FALSE, FALSE, FALSE, {}, 0) >>,
      vtNoStart            |-> << N >>,
      vtElementSize        |-> << [Start({}, 0) EXCEPT !.element_size = "other"], N >>,
      vtMethodMember       |-> Method("a.b", <<>>, <<>>, TRUE, {}),
      vtMethodSignature    |-> Method("M", <<"a">>, <<>>, TRUE, {}),
      vtMethodResult       |-> Method("M", <<>>, <<"z">>, TRUE, {}),
      vtMethodNoHandler    |-> Method("M", <<"s">>, <<>>, FALSE, {}),
      vtMethodNoHandlerRes |-> Method("M", <<>>, <<"s">>, FALSE, {}),
      vtMethodEmits        |-> Method("M", <<>>, <<>>, TRUE, {"EMITS_CHANGE"}),
      vtMethodInvalidate   |-> Method("M", <<>>, <<>>, TRUE, {"INVALIDATE_ONLY"}),
      vtPropMember         |-> Property("PROPERTY", "1bad", <<"s">>, TRUE, FALSE, {}),
      vtPropTwoTypes       |-> Property("PROPERTY", "P", <<"s", "s">>, TRUE, FALSE, {}),
      vtPropNoType         |-> Property("PROPERTY", "P", <<>>, TRUE, FALSE, {}),
      vtPropNoGetter       |-> Property("PROPERTY", "P", <<"a", "i">>, FALSE, FALSE, {}),
      vtPropNoReply        |-> Property("PROPERTY", "P", <<"s">>, TRUE, FALSE, {"NO_REPLY"}),
      vtPropInvalidateOnly |-> Property("PROPERTY", "P", <<"s">>, TRUE, FALSE, {"INVALIDATE_ONLY"}),
      vtPropUnprivileged   |-> Property("PROPERTY", "P", <<"s">>, TRUE, FALSE, {"UNPRIVILEGED"}),
      vtWritableNoSetter   |-> Property("WRITABLE_PROPERTY", "P", <<"a", "s">>, TRUE, FALSE, {}),
      vtSignalMember       |-> Signal("", <<>>, {}),
      vtSignalSignature    |-> Signal("S", <<"a">>, {}),
      vtSignalUnprivileged |-> Signal("S", <<>>, {"UNPRIVILEGED"}) ]

sd_bus_vtable(v) ==
    CASE v \in DOMAIN MoreVtables -> MoreVtables[v]
      [] v = "vtM" ->
            << Start({}, 0),
               Entry("METHOD", "M", <<"s">>, <<>>, TRUE, FALSE, FALSE, {}, CAP_NET_ADMIN + 1),
               Entry("WRITABLE_PROPERTY", "P", <<"s">>, <<>>, FALSE, TRUE, TRUE, {"EMITS_CHANGE"}, 0) >>
      [] v = "vtQ" ->
            << Start({}, 0),
               Entry("PROPERTY", "Q", <<"s">>, <<>>, FALSE, TRUE, FALSE,
                     {"EMITS_CHANGE", "INVALIDATE_ONLY"}, 0),
               Entry("METHOD", "M", <<>>, <<>>, FALSE, FALSE, FALSE, {}, 0) >>
      [] v = "vtU" ->
            << Start({}, 0),
               Entry("METHOD", "M", <<"s">>, <<>>, TRUE, FALSE, FALSE, {"UNPRIVILEGED"}, 0),
               Entry("WRITABLE_PROPERTY", "P", <<"s">>, <<>>, FALSE, FALSE, FALSE,
                     {"UNPRIVILEGED"}, 0) >>
      [] v = "vtBad" ->
            << Start({}, 0),
               Entry("PROPERTY", "P", <<"s">>, <<>>, FALSE, FALSE, FALSE, {}, 0),
               Entry("METHOD", "1bad", <<>>, <<>>, TRUE, FALSE, FALSE, {}, 0) >>
      [] v = "vtHidden" ->
            << Start({"HIDDEN"}, 0),
               Entry("PROPERTY", "H", <<"s">>, <<>>, FALSE, TRUE, FALSE, {}, 0) >>

Vtables == {"vtM", "vtQ", "vtU", "vtBad"}

\* the arrays the registration API alone is called with
AllVtables == Vtables \cup DOMAIN MoreVtables

NoFind == "NULL"

----------------------------------------------------------------------------
(* The node store *)

NewNode(parent) ==
    [parent |-> parent, child |-> <<>>, callbacks |-> <<>>, vtables |-> <<>>,
     enumerators |-> <<>>, object_manager |-> FALSE]

hashmap_remove(h, k) == [x \in DOMAIN h \ {k} |-> h[x]]

hashmap_put(h, k, v) == h @@ (k :> v)

RemoveAt(s, i) == SubSeq(s, 1, i - 1) \o SubSeq(s, i + 1, Len(s))

InsertAt(s, i, x) == SubSeq(s, 1, i) \o <<x>> \o SubSeq(s, i + 1, Len(s))

LIST_REMOVE(s, x) == SelectSeq(s, LAMBDA y : y # x)

Min(S) == CHOOSE x \in S : \A y \in S : x <= y

Max(S) == CHOOSE x \in S : \A y \in S : x >= y

RECURSIVE bus_node_allocate(_, _)
bus_node_allocate(b, path) ==
    IF path \in DOMAIN b.nodes THEN b
    ELSE LET parent == IF streq(path, Root) THEN NoPath ELSE alloc_parent(path)
             b1 == IF parent = NoPath THEN b ELSE bus_node_allocate(b, parent)
             put == hashmap_put(b1.nodes, path, NewNode(parent))
             linked == IF parent = NoPath THEN put
                       ELSE [put EXCEPT ![parent].child = <<path>> \o @]
         IN  [b1 EXCEPT !.nodes = linked]

\* bus_node_gc that frees the node but never looks at its parent
bus_node_gc_noparent(b, p) ==
    IF p = NoPath THEN b
    ELSE LET n == b.nodes[p] IN
         IF n.child # <<>> \/ n.callbacks # <<>> \/ n.vtables # <<>>
            \/ n.enumerators # <<>> \/ n.object_manager
         THEN b
         ELSE LET removed == hashmap_remove(b.nodes, p)
                  unlinked == IF n.parent = NoPath THEN removed
                              ELSE [removed EXCEPT ![n.parent].child = LIST_REMOVE(@, p)]
              IN  [b EXCEPT !.nodes = unlinked]

RECURSIVE bus_node_gc(_, _)
bus_node_gc(b, p) ==
    IF p = NoPath THEN b
    ELSE LET n == b.nodes[p] IN
         IF n.child # <<>> \/ n.callbacks # <<>> \/ n.vtables # <<>>
            \/ n.enumerators # <<>> \/ n.object_manager
         THEN b
         ELSE LET removed == hashmap_remove(b.nodes, p)
                  unlinked == IF n.parent = NoPath THEN removed
                              ELSE [removed EXCEPT ![n.parent].child = LIST_REMOVE(@, p)]
              IN  bus_node_gc([b EXCEPT !.nodes = unlinked], n.parent)

Res(b, r) == [bus |-> b, r |-> r]

----------------------------------------------------------------------------
(* Registration API: callbacks *)

\* bus_add_object, had it appended the callback at the tail of the list
bus_add_object_append(b, fallback, path, callback, userdata, id) ==
    LET b1 == bus_node_allocate(b, path)
        c == [id |-> id, callback |-> callback, userdata |-> userdata,
              is_fallback |-> fallback, last_iteration |-> 0]
    IN  Res([b1 EXCEPT !.nodes[path].callbacks = @ \o <<c>>, !.nodes_modified = TRUE], 0)

bus_add_object(b, fallback, path, callback, userdata, id) ==
    LET b1 == bus_node_allocate(b, path)
        c == [id |-> id, callback |-> callback, userdata |-> userdata,
              is_fallback |-> fallback, last_iteration |-> 0]
    IN  Res([b1 EXCEPT !.nodes[path].callbacks = <<c>> \o @, !.nodes_modified = TRUE], 0)

\* bus_remove_object, had it removed the last match of the list
bus_remove_object_last(b, fallback, path, callback, userdata) ==
    IF path \notin DOMAIN b.nodes THEN Res(b, 0)
    ELSE LET cs == b.nodes[path].callbacks
             hits == {i \in 1..Len(cs) : cs[i].callback = callback
                                         /\ cs[i].userdata = userdata
                                         /\ cs[i].is_fallback = fallback}
         IN  IF hits = {} THEN Res(b, 0)
             ELSE LET b1 == [b EXCEPT !.nodes[path].callbacks = RemoveAt(@, Max(hits))]
                      b2 == bus_node_gc(b1, path)
                  IN  Res([b2 EXCEPT !.nodes_modified = TRUE], 1)

bus_remove_object(b, fallback, path, callback, userdata) ==
    IF path \notin DOMAIN b.nodes THEN Res(b, 0)
    ELSE LET cs == b.nodes[path].callbacks
             hits == {i \in 1..Len(cs) : cs[i].callback = callback
                                         /\ cs[i].userdata = userdata
                                         /\ cs[i].is_fallback = fallback}
         IN  IF hits = {} THEN Res(b, 0)
             ELSE LET b1 == [b EXCEPT !.nodes[path].callbacks = RemoveAt(@, Min(hits))]
                      b2 == bus_node_gc(b1, path)
                  IN  Res([b2 EXCEPT !.nodes_modified = TRUE], 1)

----------------------------------------------------------------------------
(* Registration API: vtables and the member indices *)

Key(path, interface, member) == <<path, interface, member>>

\* struct vtable_member: parent names the node_vtable (node path, interface,
\* vtable array), v is the index of the entry in the vtable array
NewMember(path, c, i) ==
    [parent |-> [path |-> path, interface |-> c.interface, vtable |-> c.vtable, id |-> c.id],
     v |-> i, last_iteration |-> 0]

IsProperty(v) == v.type \in {"PROPERTY", "WRITABLE_PROPERTY"}

\* free_node_vtable: every METHOD and PROPERTY key of w's array leaves the index
RECURSIVE free_node_vtable_from(_, _, _, _)
free_node_vtable_from(b, path, w, i) ==
    LET vt == sd_bus_vtable(w.vtable) IN
    IF i > Len(vt) THEN b
    ELSE LET v == vt[i]
             key == Key(path, w.interface, v.member)
             b1 == IF v.type = "METHOD"
                   THEN [b EXCEPT !.vtable_methods = hashmap_remove(@, key)]
                   ELSE IF IsProperty(v)
                   THEN [b EXCEPT !.vtable_properties = hashmap_remove(@, key)]
                   ELSE b
         IN  free_node_vtable_from(b1, path, w, i + 1)

free_node_vtable(b, path, w) == free_node_vtable_from(b, path, w, 1)

method_entry_ok(v) ==
    /\ member_name_is_valid(v.member)
    /\ signature_is_valid(v.signature)
    /\ signature_is_valid(v.result)
    /\ (v.handler \/ (v.signature = <<>> /\ v.result = <<>>))
    /\ v.flags \cap {"EMITS_CHANGE", "INVALIDATE_ONLY"} = {}

writable_entry_ok(v) == v.set \/ bus_type_is_basic(first_char(v.signature))

\* property_entry_ok without the rule on UNPRIVILEGED
property_entry_ok_unprivileged(v) ==
    /\ member_name_is_valid(v.member)
    /\ signature_is_single(v.signature)
    /\ (v.get \/ bus_type_is_basic(first_char(v.signature)) \/ v.signature = <<"a", "s">>)
    /\ "NO_REPLY" \notin v.flags
    /\ ~("INVALIDATE_ONLY" \in v.flags /\ "EMITS_CHANGE" \notin v.flags)

property_entry_ok(v) ==
    /\ member_name_is_valid(v.member)
    /\ signature_is_single(v.signature)
    /\ (v.get \/ bus_type_is_basic(first_char(v.signature)) \/ v.signature = <<"a", "s">>)
    /\ "NO_REPLY" \notin v.flags
    /\ ~("INVALIDATE_ONLY" \in v.flags /\ "EMITS_CHANGE" \notin v.flags)
    /\ ~("UNPRIVILEGED" \in v.flags /\ v.type = "PROPERTY")

signal_entry_ok(v) ==
    /\ member_name_is_valid(v.member)
    /\ signature_is_valid(v.signature)
    /\ "UNPRIVILEGED" \notin v.flags

\* the loop over the entries of c's array from entry i on: the index entries
\* put so far stay in b when an entry fails
RECURSIVE vtable_entries_add(_, _, _, _)
vtable_entries_add(b, path, c, i) ==
    LET vt == sd_bus_vtable(c.vtable) IN
    IF i > Len(vt) THEN Res(b, 0)
    ELSE LET v == vt[i]
             key == Key(path, c.interface, v.member)
         IN
         CASE v.type = "METHOD" ->
                IF ~method_entry_ok(v) THEN Res(b, -EINVAL)
                ELSE IF key \in DOMAIN b.vtable_methods THEN Res(b, -EEXIST)
                ELSE vtable_entries_add(
                        [b EXCEPT !.vtable_methods = hashmap_put(@, key, NewMember(path, c, i))],
                        path, c, i + 1)
           [] IsProperty(v) ->
                IF v.type = "WRITABLE_PROPERTY" /\ ~writable_entry_ok(v) THEN Res(b, -EINVAL)
                ELSE IF ~property_entry_ok(v) THEN Res(b, -EINVAL)
                ELSE IF key \in DOMAIN b.vtable_properties THEN Res(b, -EEXIST)
                ELSE vtable_entries_add(
                        [b EXCEPT !.vtable_properties = hashmap_put(@, key, NewMember(path, c, i))],
                        path, c, i + 1)
           [] v.type = "SIGNAL" ->
                IF ~signal_entry_ok(v) THEN Res(b, -EINVAL)
                ELSE vtable_entries_add(b, path, c, i + 1)
           [] OTHER -> Res(b, -EINVAL)

\* the reserved interfaces without org.freedesktop.DBus.ObjectManager
Reserved_three == {IfProperties, IfIntrospectable, IfPeer}

Reserved == {IfProperties, IfIntrospectable, IfPeer, IfObjectManager}

\* the scan of the node's vtable list without the comparison of is_fallback
RECURSIVE vtable_list_scan_any_kind(_, _, _, _, _)
vtable_list_scan_any_kind(vts, i, interface, vtable, fallback) ==
    IF i > Len(vts) THEN 0
    ELSE IF streq(vts[i].interface, interface) /\ vts[i].vtable = vtable THEN -EEXIST
    ELSE vtable_list_scan_any_kind(vts, i + 1, interface, vtable, fallback)

\* the scan of the node's vtable list: 0, or the error of the first element
\* that conflicts with the new registration
RECURSIVE vtable_list_scan(_, _, _, _, _)
vtable_list_scan(vts, i, interface, vtable, fallback) ==
    IF i > Len(vts) THEN 0
    ELSE IF vts[i].is_fallback # fallback THEN -EPROTOTYPE
    ELSE IF streq(vts[i].interface, interface) /\ vts[i].vtable = vtable THEN -EEXIST
    ELSE vtable_list_scan(vts, i + 1, interface, vtable, fallback)

\* add_object_vtable_internal, had it put every new vtable at the head of the list
add_object_vtable_internal_prepend(b, path, interface, vtable, fallback, find, userdata, id) ==
    LET vt == sd_bus_vtable(vtable) IN
    IF \/ ~interface_name_is_valid(interface)
       \/ vt[1].type # "START"
       \/ vt[1].element_size # "sizeof(struct sd_bus_vtable)"
       \/ interface \in Reserved
    THEN Res(b, -EINVAL)
    ELSE
    LET b1 == bus_node_allocate(b, path)
        vts == b1.nodes[path].vtables
        scan == vtable_list_scan(vts, 1, interface, vtable, fallback)
        same == {i \in 1..Len(vts) : streq(vts[i].interface, interface)}
        existing == IF same = {} THEN 0 ELSE Max(same)
        c == [id |-> id, interface |-> interface, is_fallback |-> fallback, vtable |-> vtable,
              userdata |-> userdata, find |-> find]
        added == vtable_entries_add(b1, path, c, 2)
    IN  IF scan # 0 THEN Res(bus_node_gc(b1, path), scan)
        ELSE IF added.r # 0
        THEN Res(bus_node_gc(free_node_vtable(added.bus, path, c), path), added.r)
        ELSE Res([added.bus EXCEPT !.nodes[path].vtables = InsertAt(@, 0, c),
                                   !.nodes_modified = TRUE], 0)

add_object_vtable_internal(b, path, interface, vtable, fallback, find, userdata, id) ==
    LET vt == sd_bus_vtable(vtable) IN
    IF \/ ~interface_name_is_valid(interface)
       \/ vt[1].type # "START"
       \/ vt[1].element_size # "sizeof(struct sd_bus_vtable)"
       \/ interface \in Reserved
    THEN Res(b, -EINVAL)
    ELSE
    LET b1 == bus_node_allocate(b, path)
        vts == b1.nodes[path].vtables
        scan == vtable_list_scan(vts, 1, interface, vtable, fallback)
        same == {i \in 1..Len(vts) : streq(vts[i].interface, interface)}
        existing == IF same = {} THEN 0 ELSE Max(same)
        c == [id |-> id, interface |-> interface, is_fallback |-> fallback, vtable |-> vtable,
              userdata |-> userdata, find |-> find]
        added == vtable_entries_add(b1, path, c, 2)
    IN  IF scan # 0 THEN Res(bus_node_gc(b1, path), scan)
        ELSE IF added.r # 0
        THEN Res(bus_node_gc(free_node_vtable(added.bus, path, c), path), added.r)
        ELSE Res([added.bus EXCEPT !.nodes[path].vtables = InsertAt(@, existing, c),
                                   !.nodes_modified = TRUE], 0)

remove_object_vtable_internal(b, path, interface, vtable, fallback, find, userdata) ==
    IF ~interface_name_is_valid(interface) THEN Res(b, -EINVAL)
    ELSE IF path \notin DOMAIN b.nodes THEN Res(b, 0)
    ELSE LET vts == b.nodes[path].vtables
             hits == {i \in 1..Len(vts) :
                        /\ streq(vts[i].interface, interface)
                        /\ vts[i].is_fallback = fallback
                        /\ vts[i].vtable = vtable
                        /\ vts[i].find = find
                        /\ vts[i].userdata = userdata}
         IN  IF hits = {} THEN Res(b, 0)
             ELSE LET c == vts[Min(hits)]
                      b1 == [b EXCEPT !.nodes[path].vtables = RemoveAt(@, Min(hits))]
                      b2 == free_node_vtable(b1, path, c)
                      b3 == bus_node_gc(b2, path)
                  IN  Res([b3 EXCEPT !.nodes_modified = TRUE], 1)

----------------------------------------------------------------------------
(* Registration API: enumerators and the object-manager marker *)

sd_bus_add_node_enumerator(b, path, callback, userdata, id) ==
    LET b1 == bus_node_allocate(b, path)
        c == [id |-> id, callback |-> callback, userdata |-> userdata]
    IN  Res([b1 EXCEPT !.nodes[path].enumerators = <<c>> \o @, !.nodes_modified = TRUE], 0)

sd_bus_remove_node_enumerator(b, path, callback, userdata) ==
    IF path \notin DOMAIN b.nodes THEN Res(b, 0)
    ELSE LET es == b.nodes[path].enumerators
             hits == {i \in 1..Len(es) : es[i].callback = callback /\ es[i].userdata = userdata}
         IN  IF hits = {} THEN Res(b, 0)
             ELSE LET b1 == [b EXCEPT !.nodes[path].enumerators = RemoveAt(@, Min(hits))]
                      b2 == bus_node_gc(b1, path)
                  IN  Res([b2 EXCEPT !.nodes_modified = TRUE], 1)

sd_bus_add_object_manager(b, path) ==
    LET b1 == bus_node_allocate(b, path)
    IN  Res([b1 EXCEPT !.nodes[path].object_manager = TRUE, !.nodes_modified = TRUE], 0)

sd_bus_remove_object_manager(b, path) ==
    IF path \notin DOMAIN b.nodes THEN Res(b, 0)
    ELSE IF ~b.nodes[path].object_manager THEN Res(b, 0)
    ELSE LET b1 == [b EXCEPT !.nodes[path].object_manager = FALSE, !.nodes_modified = TRUE]
         IN  Res(bus_node_gc(b1, path), 1)

----------------------------------------------------------------------------
(* Access check *)

CapSets == SUBSET {CAP_KILL, CAP_NET_ADMIN, CAP_SYS_ADMIN}

\* what the peer of a message really is: whether its credentials can be
\* queried, its uid relative to getuid(), its effective capability set
Peers == [ok : BOOLEAN, uid : {"self", "other"}, caps : CapSets]

\* the credentials object holds the requested fields only
sd_bus_query_sender_creds(peer, mask) ==
    IF ~peer.ok THEN [r |-> -ENODATA, mask |-> {}, uid |-> "", caps |-> {}]
    ELSE [r |-> 0, mask |-> mask,
          uid |-> IF "UID" \in mask THEN peer.uid ELSE "",
          caps |-> IF "EFFECTIVE_CAPS" \in mask THEN peer.caps ELSE {}]

sd_bus_creds_has_effective_cap(creds, cap) ==
    IF "EFFECTIVE_CAPS" \notin creds.mask THEN -ENODATA
    ELSE IF cap \in creds.caps THEN 1 ELSE 0

sd_bus_creds_get_uid(creds) == IF "UID" \notin creds.mask THEN -ENODATA ELSE 0

\* the 16-bit capability field of a vtable entry's flags
CAPABILITY_SHIFT(v) == v.cap % 65536

\* no capability computed
NoCap == 0 - 1

Access(r, error, mask, cap) == [r |-> r, error |-> error, mask |-> mask, cap |-> cap]

\* the credential mask check_access asks for
creds_mask_always_caps(b) == {"UID", "EFFECTIVE_CAPS"}

creds_mask(b) == IF b.is_kernel THEN {"UID", "EFFECTIVE_CAPS"} ELSE {"UID"}

\* the capability a member requires
required_cap_member_only(v, start) ==
    IF CAPABILITY_SHIFT(v) = 0 THEN CAP_SYS_ADMIN ELSE CAPABILITY_SHIFT(v) - 1

required_cap(v, start) ==
    LET cap1 == CAPABILITY_SHIFT(v)
        cap2 == IF cap1 = 0 THEN CAPABILITY_SHIFT(start) ELSE cap1
    IN  IF cap2 = 0 THEN CAP_SYS_ADMIN ELSE cap2 - 1

\* check_access without the final denial
check_access_open(b, peer, v, start) ==
    Access(1, "", {}, NoCap)

\* check_access(bus, m, c, error): r >= 0 grants, r < 0 with error set denies
check_access(b, peer, v, start) ==
    IF b.trusted THEN Access(0, "", {}, NoCap)
    ELSE IF "UNPRIVILEGED" \in v.flags THEN Access(0, "", {}, NoCap)
    ELSE LET mask == creds_mask(b)
             creds == sd_bus_query_sender_creds(peer, mask)
             cap == required_cap(v, start)
         IN  IF creds.r < 0 THEN Access(creds.r, "", mask, NoCap)
             ELSE IF sd_bus_creds_has_effective_cap(creds, cap) > 0 THEN Access(1, "", mask, cap)
             ELSE IF sd_bus_creds_get_uid(creds) >= 0 /\ creds.uid = "self"
                  THEN Access(1, "", mask, cap)
             ELSE Access(-EACCES, "ACCESS_DENIED", mask, cap)

\* bus_maybe_reply_error: an error (r < 0 or error set) is answered with an
\* error reply and counts as handled; anything else is passed through
bus_maybe_reply_error(r, error) ==
    IF error # "" \/ r < 0
    THEN [r |-> 1, reply |-> <<IF error # "" THEN error ELSE "errno">>]
    ELSE [r |-> r, reply |-> <<>>]

NoPeer == [ok |-> FALSE, uid |-> "", caps |-> {}]

NoAcc == [checked |-> FALSE, peer |-> NoPeer, v |-> Start({}, 0), start |-> Start({}, 0),
          res |-> Access(0, "", {}, NoCap)]

----------------------------------------------------------------------------
(* State of a dispatch *)

EmptyMap == [x \in {} |-> x]

NoMember == [parent |-> [path |-> NoPath, interface |-> "", vtable |-> "", id |-> 0],
             v |-> 0, last_iteration |-> 0]

NoMsg == [path |-> NoPath, interface |-> "", member |-> "", signature |-> <<>>,
          arg_interface |-> "", arg_member |-> ""]

NoVtable == [id |-> 0, interface |-> "", is_fallback |-> FALSE, vtable |-> "",
             userdata |-> "", find |-> "NULL"]

Frame0 == [p |-> NoPath, require_fallback |-> FALSE, prefixes |-> <<>>, cur |-> 0,
           key |-> <<>>, c |-> NoMember, r |-> 0, found_object |-> FALSE, cont |-> "",
           found_interface |-> FALSE, k |-> 0, reply |-> <<>>, w |-> NoVtable, u |-> ""]

\* calls: the user callbacks invoked; lookups: the object_find_and_run calls of
\* the running attempt; replies: the replies the engine sent; touched: the
\* running callback registered or removed something; dirty: a callback of
\* the running attempt did so and returned 0; ended: the do-while loop was left
Obs0 == [calls |-> <<>>, lookups |-> <<>>, replies |-> <<>>, touched |-> FALSE,
         dirty |-> FALSE, attempt |-> 0, freed_ids |-> {}, freed_paths |-> {},
         ended |-> FALSE]

CallbackPcs == {"in_callback", "in_find", "in_method", "in_get", "in_set", "in_getall_get"}

Range(f) == {f[x] : x \in DOMAIN f}

CallbackIds(b) == UNION {{c.id : c \in Range(b.nodes[q].callbacks)} : q \in DOMAIN b.nodes}

VtableIds(b) == UNION {{c.id : c \in Range(b.nodes[q].vtables)} : q \in DOMAIN b.nodes}

EnumeratorIds(b) == UNION {{c.id : c \in Range(b.nodes[q].enumerators)} : q \in DOMAIN b.nodes}

LiveIds(b) == CallbackIds(b) \cup VtableIds(b) \cup EnumeratorIds(b)

\* registrations alive: callbacks, vtables, enumerators and object-manager markers
Live(b) == Cardinality(LiveIds(b)) + Cardinality({q \in DOMAIN b.nodes : b.nodes[q].object_manager})

\* the address of the next allocation: not one in use, and none freed while
\* the running dispatch may still hold a pointer to it
NewId == Min({i \in 1..(MaxLive + MaxCbOps + 1) : i \notin LiveIds(bus) \cup obs.freed_ids})

\* the list element after the one with identity id (0 at the end)
NextOf(list, id) ==
    LET i == CHOOSE k \in 1..Len(list) : list[k].id = id
    IN  IF i = Len(list) THEN 0 ELSE list[i + 1].id

HeadOf(list) == IF list = <<>> THEN 0 ELSE list[1].id

ById(list, id) == list[CHOOSE k \in 1..Len(list) : list[k].id = id]

\* the node whose callback list holds the callback with identity id
CallbackHome(b, id) ==
    CHOOSE q \in DOMAIN b.nodes : id \in {c.id : c \in Range(b.nodes[q].callbacks)}

\* the node_vtable a member's parent pointer names
ParentOf(b, c) == ById(b.nodes[c.parent.path].vtables, c.parent.id)

EntryOf(c) == sd_bus_vtable(c.parent.vtable)[c.v]

StartOf(c) == sd_bus_vtable(c.parent.vtable)[1]

----------------------------------------------------------------------------
(* Signal emitter: PropertiesChanged.  The find resolvers and getters it    *)
(* calls are taken not to call back into the bus; found is the answer of   *)
(* the find resolvers.                                                     *)

NoSignal == [path |-> NoPath, interface |-> "", changed |-> <<>>, invalidated |-> <<>>]

\* node_vtable_get_userdata > 0 for a resolver that answers found
resolves(c, found) == c.find = NoFind \/ found

\* the first STRV_FOREACH, had it not looked at EMITS_CHANGE
RECURSIVE emit_changed_names_no_edom(_, _, _, _, _, _)
emit_changed_names_no_edom(b, prefix, c, names, j, acc) ==
    IF j > Len(names) \/ acc.r # 0 THEN acc
    ELSE LET key == Key(prefix, c.interface, names[j]) IN
         IF ~member_name_is_valid(names[j]) THEN [acc EXCEPT !.r = -EINVAL]
         ELSE IF key \notin DOMAIN b.vtable_properties THEN [acc EXCEPT !.r = -ENOENT]
         ELSE LET v == b.vtable_properties[key] IN
              IF v.parent.id # c.id THEN emit_changed_names_no_edom(b, prefix, c, names, j + 1, acc)
              ELSE IF "INVALIDATE_ONLY" \in EntryOf(v).flags
                   THEN emit_changed_names_no_edom(b, prefix, c, names, j + 1,
                                                   [acc EXCEPT !.has_invalidating = TRUE])
              ELSE emit_changed_names_no_edom(b, prefix, c, names, j + 1,
                                              [acc EXCEPT !.has_changing = TRUE,
                                                          !.changed = Append(@, names[j])])

\* the first STRV_FOREACH of emit_properties_changed_on_interface for vtable c
RECURSIVE emit_changed_names(_, _, _, _, _, _)
emit_changed_names(b, prefix, c, names, j, acc) ==
    IF j > Len(names) \/ acc.r # 0 THEN acc
    ELSE LET key == Key(prefix, c.interface, names[j]) IN
         IF ~member_name_is_valid(names[j]) THEN [acc EXCEPT !.r = -EINVAL]
         ELSE IF key \notin DOMAIN b.vtable_properties THEN [acc EXCEPT !.r = -ENOENT]
         ELSE LET v == b.vtable_properties[key] IN
              IF v.parent.id # c.id THEN emit_changed_names(b, prefix, c, names, j + 1, acc)
              ELSE IF "EMITS_CHANGE" \notin EntryOf(v).flags THEN [acc EXCEPT !.r = -EDOM]
              ELSE IF "INVALIDATE_ONLY" \in EntryOf(v).flags
                   THEN emit_changed_names(b, prefix, c, names, j + 1,
                                           [acc EXCEPT !.has_invalidating = TRUE])
              ELSE emit_changed_names(b, prefix, c, names, j + 1,
                                      [acc EXCEPT !.has_changing = TRUE,
                                                  !.changed = Append(@, names[j])])

RECURSIVE emit_changed_vtables(_, _, _, _, _, _, _, _)
emit_changed_vtables(b, prefix, interface, require_fallback, names, found, i, acc) ==
    LET vts == b.nodes[prefix].vtables IN
    IF i > Len(vts) \/ acc.r # 0 THEN acc
    ELSE IF (require_fallback /\ ~vts[i].is_fallback)
            \/ ~streq(vts[i].interface, interface)
            \/ ~resolves(vts[i], found)
         THEN emit_changed_vtables(b, prefix, interface, require_fallback, names, found, i + 1, acc)
    ELSE emit_changed_vtables(b, prefix, interface, require_fallback, names, found, i + 1,
                              emit_changed_names(b, prefix, vts[i], names, 1, acc))

\* the second STRV_FOREACH: asserts that every name belongs to vtable c
RECURSIVE emit_invalidated_names(_, _, _, _, _, _)
emit_invalidated_names(b, prefix, c, names, j, acc) ==
    IF j > Len(names) \/ acc.abort THEN acc
    ELSE LET key == Key(prefix, c.interface, names[j]) IN
         IF key \notin DOMAIN b.vtable_properties THEN [acc EXCEPT !.abort = TRUE]
         ELSE LET v == b.vtable_properties[key] IN
              IF v.parent.id # c.id THEN [acc EXCEPT !.abort = TRUE]
              ELSE IF "INVALIDATE_ONLY" \notin EntryOf(v).flags
                   THEN emit_invalidated_names(b, prefix, c, names, j + 1, acc)
              ELSE emit_invalidated_names(b, prefix, c, names, j + 1,
                                          [acc EXCEPT !.invalidated = Append(@, names[j])])

RECURSIVE emit_invalidated_vtables(_, _, _, _, _, _, _, _)
emit_invalidated_vtables(b, prefix, interface, require_fallback, names, found, i, acc) ==
    LET vts == b.nodes[prefix].vtables IN
    IF i > Len(vts) \/ acc.abort THEN acc
    ELSE IF (require_fallback /\ ~vts[i].is_fallback)
            \/ ~streq(vts[i].interface, interface)
            \/ ~resolves(vts[i], found)
         THEN emit_invalidated_vtables(b, prefix, interface, require_fallback, names, found, i + 1, acc)
    ELSE emit_invalidated_vtables(b, prefix, interface, require_fallback, names, found, i + 1,
                                  emit_invalidated_names(b, prefix, vts[i], names, 1, acc))

Emitted(r, abort, signal) == [r |-> r, abort |-> abort, signal |-> signal]

emit_properties_changed_on_interface(b, prefix, path, interface, require_fallback, names, found) ==
    IF prefix \notin DOMAIN b.nodes THEN Emitted(0, FALSE, NoSignal)
    ELSE
    LET one == emit_changed_vtables(b, prefix, interface, require_fallback, names, found, 1,
                   [r |-> 0, changed |-> <<>>, has_invalidating |-> FALSE, has_changing |-> FALSE])
        two == IF one.has_invalidating
               THEN emit_invalidated_vtables(b, prefix, interface, require_fallback, names, found, 1,
                        [abort |-> FALSE, invalidated |-> <<>>])
               ELSE [abort |-> FALSE, invalidated |-> <<>>]
    IN  IF one.r # 0 THEN Emitted(one.r, FALSE, NoSignal)
        ELSE IF ~one.has_invalidating /\ ~one.has_changing THEN Emitted(0, FALSE, NoSignal)
        ELSE IF two.abort THEN Emitted(0, TRUE, NoSignal)
        ELSE Emitted(1, FALSE, [path |-> path, interface |-> interface,
                                changed |-> one.changed, invalidated |-> two.invalidated])

\* the loop over the prefixes, had it begun with the shortest
RECURSIVE emit_properties_changed_prefixes_shortest_first(_, _, _, _, _, _)
emit_properties_changed_prefixes_shortest_first(b, prefixes, path, interface, names, found) ==
    IF prefixes = <<>> THEN Emitted(-ENOENT, FALSE, NoSignal)
    ELSE LET last == prefixes[Len(prefixes)]
             e == emit_properties_changed_on_interface(b, last, path, interface,
                                                       TRUE, names, found)
         IN  IF e.r # 0 \/ e.abort THEN e
             ELSE emit_properties_changed_prefixes_shortest_first(
                      b, SubSeq(prefixes, 1, Len(prefixes) - 1), path, interface, names, found)

\* the OBJECT_PATH_FOREACH_PREFIX loop of sd_bus_emit_properties_changed_strv
RECURSIVE emit_properties_changed_prefixes(_, _, _, _, _, _)
emit_properties_changed_prefixes(b, prefixes, path, interface, names, found) ==
    IF prefixes = <<>> THEN Emitted(-ENOENT, FALSE, NoSignal)
    ELSE LET e == emit_properties_changed_on_interface(b, Head(prefixes), path, interface,
                                                       TRUE, names, found)
         IN  IF e.r # 0 \/ e.abort THEN e
             ELSE emit_properties_changed_prefixes(b, Tail(prefixes), path, interface, names, found)

\* [bus, r, abort, signal]
sd_bus_emit_properties_changed_strv(b, path, interface, names, found) ==
    IF ~interface_name_is_valid(interface) THEN [bus |-> b] @@ Emitted(-EINVAL, FALSE, NoSignal)
    ELSE IF names = <<>> THEN [bus |-> b] @@ Emitted(0, FALSE, NoSignal)
    ELSE LET b1 == [b EXCEPT !.nodes_modified = FALSE]
             e == emit_properties_changed_on_interface(b1, path, path, interface, FALSE, names, found)
         IN  [bus |-> b1] @@
             (IF e.r # 0 \/ e.abort THEN e
              ELSE emit_properties_changed_prefixes(b1, object_path_prefixes(path), path,
                                                    interface, names, found))

----------------------------------------------------------------------------
(* Signal emitter: InterfacesAdded, under the same assumption on the find  *)
(* resolvers and getters; the getters succeed.                             *)

\* vtable_append_all_properties: the members of the properties appended, none
\* for a vtable that is HIDDEN as a whole, no HIDDEN property
RECURSIVE appended_properties(_, _)
appended_properties(vt, i) ==
    IF "HIDDEN" \in vt[1].flags \/ i > Len(vt) THEN <<>>
    ELSE IF ~IsProperty(vt[i]) \/ "HIDDEN" \in vt[i].flags THEN appended_properties(vt, i + 1)
    ELSE <<vt[i].member>> \o appended_properties(vt, i + 1)

\* the LIST_FOREACH of interfaces_added_append_one_prefix from element i on:
\* [r, properties], r the found_interface it returns
RECURSIVE interfaces_added_vtables(_, _, _, _, _, _)
interfaces_added_vtables(vts, i, interface, require_fallback, found, acc) ==
    IF i > Len(vts) THEN acc
    ELSE IF (require_fallback /\ ~vts[i].is_fallback)
            \/ ~streq(vts[i].interface, interface)
            \/ ~resolves(vts[i], found)
         THEN interfaces_added_vtables(vts, i + 1, interface, require_fallback, found, acc)
    ELSE interfaces_added_vtables(vts, i + 1, interface, require_fallback, found,
             [r |-> 1,
              properties |-> acc.properties \o appended_properties(sd_bus_vtable(vts[i].vtable), 2)])

interfaces_added_append_one_prefix(b, prefix, path, interface, require_fallback, found) ==
    IF prefix \notin DOMAIN b.nodes THEN [r |-> 0, properties |-> <<>>]
    ELSE interfaces_added_vtables(b.nodes[prefix].vtables, 1, interface, require_fallback, found,
                                  [r |-> 0, properties |-> <<>>])

\* the OBJECT_PATH_FOREACH_PREFIX loop of interfaces_added_append_one, had it
\* returned 0 for an interface found nowhere
RECURSIVE interfaces_added_prefixes_zero(_, _, _, _, _)
interfaces_added_prefixes_zero(b, prefixes, path, interface, found) ==
    IF prefixes = <<>> THEN [r |-> 0, properties |-> <<>>]
    ELSE LET e == interfaces_added_append_one_prefix(b, Head(prefixes), path, interface, TRUE, found)
         IN  IF e.r # 0 THEN e
             ELSE interfaces_added_prefixes_zero(b, Tail(prefixes), path, interface, found)

\* the OBJECT_PATH_FOREACH_PREFIX loop of interfaces_added_append_one
RECURSIVE interfaces_added_prefixes(_, _, _, _, _)
interfaces_added_prefixes(b, prefixes, path, interface, found) ==
    IF prefixes = <<>> THEN [r |-> -ENOENT, properties |-> <<>>]
    ELSE LET e == interfaces_added_append_one_prefix(b, Head(prefixes), path, interface, TRUE, found)
         IN  IF e.r # 0 THEN e
             ELSE interfaces_added_prefixes(b, Tail(prefixes), path, interface, found)

interfaces_added_append_one(b, path, interface, found) ==
    LET e == interfaces_added_append_one_prefix(b, path, path, interface, FALSE, found)
    IN  IF e.r # 0 THEN e
        ELSE interfaces_added_prefixes(b, object_path_prefixes(path), path, interface, found)

\* the STRV_FOREACH of sd_bus_emit_interfaces_added_strv from interface j on:
\* [r, interfaces], the entries appended to the signal so far
RECURSIVE interfaces_added_entries(_, _, _, _, _, _)
interfaces_added_entries(b, path, interfaces, j, found, acc) ==
    IF j > Len(interfaces) THEN acc
    ELSE IF ~interface_name_is_valid(interfaces[j]) THEN [acc EXCEPT !.r = -EINVAL]
    ELSE LET e == interfaces_added_append_one(b, path, interfaces[j], found) IN
         IF e.r < 0 THEN [acc EXCEPT !.r = e.r]
         ELSE interfaces_added_entries(b, path, interfaces, j + 1, found,
                  [acc EXCEPT !.interfaces =
                       Append(@, [interface |-> interfaces[j], properties |-> e.properties])])

NoAdded == [path |-> NoPath, member |-> "", interfaces |-> <<>>]

\* [bus, r, signal]; sent is what sd_bus_send returns
sd_bus_emit_interfaces_added_strv(b, path, interfaces, found, sent) ==
    IF interfaces = <<>> THEN [bus |-> b, r |-> 0, signal |-> NoAdded]
    ELSE LET b1 == [b EXCEPT !.nodes_modified = FALSE]
             e == interfaces_added_entries(b1, path, interfaces, 1, found,
                                           [r |-> 0, interfaces |-> <<>>])
         IN  IF e.r < 0 THEN [bus |-> b1, r |-> e.r, signal |-> NoAdded]
             ELSE [bus |-> b1, r |-> sent,
                   signal |-> [path |-> path, member |-> "InterfacesAdded",
                               interfaces |-> e.interfaces]]

----------------------------------------------------------------------------
(* org.freedesktop.DBus.ObjectManager.GetManagedObjects, under the same    *)
(* assumption on the find resolvers and getters; the getters and the node  *)
(* enumerators succeed.                                                    *)

\* path a is path b or lies below it
object_path_startswith(a, b) ==
    \/ streq(b, Root)
    \/ streq(a, b)
    \/ Len(a) > Len(b) /\ SubSeq(a, 1, Len(b)) = b /\ a[Len(b) + 1] = "/"

\* add_enumerated_to_set: every enumerator of the list reports the paths of
\* enumerated; those outside prefix are dropped
add_enumerated_to_set(prefix, first, s, enumerated) ==
    IF first = <<>> THEN s
    ELSE s \cup {k \in enumerated : object_path_startswith(k, prefix)}

RECURSIVE add_subtree_to_set(_, _, _, _, _)
RECURSIVE add_children_to_set(_, _, _, _, _, _)
\* the LIST_FOREACH of add_subtree_to_set over n->child from element i on
add_children_to_set(b, prefix, children, i, s, enumerated) ==
    IF i > Len(children) THEN s
    ELSE IF ~object_path_startswith(children[i], prefix)
         THEN add_children_to_set(b, prefix, children, i + 1, s, enumerated)
    ELSE add_children_to_set(b, prefix, children, i + 1,
             add_subtree_to_set(b, prefix, children[i], s \cup {children[i]}, enumerated),
             enumerated)

add_subtree_to_set(b, prefix, n, s, enumerated) ==
    add_children_to_set(b, prefix, b.nodes[n].child, 1,
        add_enumerated_to_set(prefix, b.nodes[n].enumerators, s, enumerated), enumerated)

get_child_nodes(b, prefix, n, enumerated) == add_subtree_to_set(b, prefix, n, {}, enumerated)

RECURSIVE bus_node_with_object_manager(_, _)
bus_node_with_object_manager(b, n) ==
    \/ b.nodes[n].object_manager
    \/ b.nodes[n].parent # NoPath /\ bus_node_with_object_manager(b, b.nodes[n].parent)

\* the LIST_FOREACH of object_manager_serialize_path from element i on: the
\* interface parts opened so far, each [interface, properties]
RECURSIVE object_manager_serialize_vtables(_, _, _, _, _)
object_manager_serialize_vtables(vts, i, require_fallback, found, acc) ==
    IF i > Len(vts) THEN acc
    ELSE IF (require_fallback /\ ~vts[i].is_fallback) \/ ~resolves(vts[i], found)
         THEN object_manager_serialize_vtables(vts, i + 1, require_fallback, found, acc)
    ELSE object_manager_serialize_vtables(vts, i + 1, require_fallback, found,
             IF acc # <<>> /\ streq(acc[Len(acc)].interface, vts[i].interface)
             THEN [acc EXCEPT ![Len(acc)].properties =
                       @ \o appended_properties(sd_bus_vtable(vts[i].vtable), 2)]
             ELSE Append(acc, [interface |-> vts[i].interface,
                               properties |-> appended_properties(sd_bus_vtable(vts[i].vtable), 2)]))

\* the dict entries appended to the reply: one if something resolved, else none
object_manager_serialize_path(b, prefix, path, require_fallback, found) ==
    IF prefix \notin DOMAIN b.nodes THEN <<>>
    ELSE IF \A k \in 1..Len(b.nodes[prefix].vtables) :
                \/ require_fallback /\ ~b.nodes[prefix].vtables[k].is_fallback
                \/ ~resolves(b.nodes[prefix].vtables[k], found)
         THEN <<>>
    ELSE << [path |-> path,
             interfaces |-> object_manager_serialize_vtables(b.nodes[prefix].vtables, 1,
                                                             require_fallback, found, <<>>)] >>

\* the OBJECT_PATH_FOREACH_PREFIX loop of object_manager_serialize_path_and_fallbacks
RECURSIVE object_manager_serialize_prefixes(_, _, _, _)
object_manager_serialize_prefixes(b, prefixes, path, found) ==
    IF prefixes = <<>> THEN <<>>
    ELSE object_manager_serialize_path(b, Head(prefixes), path, TRUE, found)
             \o object_manager_serialize_prefixes(b, Tail(prefixes), path, found)

object_manager_serialize_path_and_fallbacks(b, path, found) ==
    object_manager_serialize_path(b, path, path, FALSE, found)
        \o object_manager_serialize_prefixes(b, object_path_prefixes(path), path, found)

\* the SET_FOREACH of process_get_managed_objects; the set is walked in an
\* order the code does not fix, here in the order CHOOSE picks
RECURSIVE object_manager_serialize_set(_, _, _)
object_manager_serialize_set(b, s, found) ==
    IF s = {} THEN <<>>
    ELSE object_manager_serialize_path_and_fallbacks(b, CHOOSE x \in s : TRUE, found)
             \o object_manager_serialize_set(b, s \ {CHOOSE x \in s : TRUE}, found)

NoManaged == [path |-> NoPath, member |-> "", objects |-> <<>>]

ManagedObjects(path, objects) ==
    [path |-> path, member |-> "GetManagedObjects", objects |-> objects]

\* [r, reply] for message path m_path at node n; opened is what
\* sd_bus_message_open_container returned for the array, 0 or more
process_get_managed_objects(b, m_path, n, require_fallback, found, opened, enumerated) ==
    IF ~bus_node_with_object_manager(b, n) THEN [r |-> 0, reply |-> NoManaged]
    ELSE IF get_child_nodes(b, m_path, n, enumerated) = {}
         THEN IF opened > 0
                 /\ \E k \in 1..Len(b.nodes[n].vtables) :
                        ~(require_fallback /\ ~b.nodes[n].vtables[k].is_fallback)
              THEN [r |-> 1, reply |-> ManagedObjects(m_path, <<>>)]
              ELSE [r |-> 0, reply |-> NoManaged]
    ELSE [r |-> 1,
          reply |-> ManagedObjects(m_path,
                        object_manager_serialize_set(b, get_child_nodes(b, m_path, n, enumerated),
                                                     found))]

\* bus_node_exists on a node without callbacks that call back
bus_node_exists(b, n, require_fallback, found) ==
    \/ \E k \in 1..Len(b.nodes[n].callbacks) :
           ~(require_fallback /\ ~b.nodes[n].callbacks[k].is_fallback)
    \/ \E k \in 1..Len(b.nodes[n].vtables) :
           /\ ~(require_fallback /\ ~b.nodes[n].vtables[k].is_fallback)
           /\ resolves(b.nodes[n].vtables[k], found)
    \/ ~require_fallback /\ (b.nodes[n].enumerators # <<>> \/ b.nodes[n].object_manager)

\* object_find_and_run for a GetManagedObjects call without arguments, on a
\* bus without object callbacks: [r, reply, found_object]
get_managed_objects_find_and_run(b, m_path, p, require_fallback, found, opened, enumerated) ==
    IF p \notin DOMAIN b.nodes THEN [r |-> 0, reply |-> NoManaged, found_object |-> FALSE]
    ELSE [found_object |-> bus_node_exists(b, p, require_fallback, found)]
             @@ process_get_managed_objects(b, m_path, p, require_fallback, found, opened,
                                            enumerated)

\* the OBJECT_PATH_FOREACH_PREFIX loop of bus_process_object
RECURSIVE get_managed_objects_prefixes(_, _, _, _, _, _, _)
get_managed_objects_prefixes(b, m_path, prefixes, found, opened, enumerated, found_object) ==
    IF prefixes = <<>>
    THEN IF found_object
         THEN [r |-> 1, reply |-> [NoManaged EXCEPT !.path = m_path, !.member = "UnknownMethod"]]
         ELSE [r |-> 0, reply |-> NoManaged]
    ELSE IF get_managed_objects_find_and_run(b, m_path, Head(prefixes), TRUE, found, opened,
                                             enumerated).r # 0
         THEN process_get_managed_objects(b, m_path, Head(prefixes), TRUE, found, opened,
                                          enumerated)
    ELSE get_managed_objects_prefixes(b, m_path, Tail(prefixes), found, opened, enumerated,
             found_object \/ get_managed_objects_find_and_run(b, m_path, Head(prefixes), TRUE,
                                 found, opened, enumerated).found_object)

\* bus_process_object for a GetManagedObjects call: [bus, r, reply]
get_managed_objects(b, m_path, found, opened, enumerated) ==
    IF DOMAIN b.nodes = {} THEN [bus |-> b, r |-> 0, reply |-> NoManaged]
    ELSE [bus |-> [b EXCEPT !.nodes_modified = FALSE]] @@
         (IF get_managed_objects_find_and_run(b, m_path, m_path, FALSE, found, opened,
                                              enumerated).r # 0
          THEN process_get_managed_objects(b, m_path, m_path, FALSE, found, opened, enumerated)
          ELSE get_managed_objects_prefixes(b, m_path, object_path_prefixes(m_path), found,
                   opened, enumerated,
                   get_managed_objects_find_and_run(b, m_path, m_path, FALSE, found, opened,
                                                    enumerated).found_object))

----------------------------------------------------------------------------
(* Introspect.  Find resolvers and enumerators are taken not to call back  *)
(* into the bus; found is the answer of every resolver and enumerated the  *)
(* set of paths every enumerator reports.                                  *)

\* the LIST_FOREACH of process_introspect from element i on: the names of
\* the <interface> elements written so far
RECURSIVE introspect_write_vtables(_, _, _, _, _)
introspect_write_vtables(vts, i, require_fallback, found, acc) ==
    IF i > Len(vts) THEN acc
    ELSE IF (require_fallback /\ ~vts[i].is_fallback) \/ ~resolves(vts[i], found)
         THEN introspect_write_vtables(vts, i + 1, require_fallback, found, acc)
    ELSE IF "HIDDEN" \in sd_bus_vtable(vts[i].vtable)[1].flags
         THEN introspect_write_vtables(vts, i + 1, require_fallback, found, acc)
    ELSE introspect_write_vtables(vts, i + 1, require_fallback, found,
             IF acc # <<>> /\ streq(acc[Len(acc)], vts[i].interface)
             THEN acc ELSE Append(acc, vts[i].interface))

NoIntrospection ==
    [path |-> NoPath, member |-> "", object_manager |-> FALSE, interfaces |-> <<>>,
     children |-> {}]

Introspection(path, object_manager, interfaces, children) ==
    [path |-> path, member |-> "Introspect", object_manager |-> object_manager,
     interfaces |-> interfaces, children |-> children]

\* [r, reply, found_object] for message path m_path at node n; found_object
\* is what the call stores through its pointer, FALSE when it stores nothing
process_introspect(b, m_path, n, require_fallback, found, enumerated) ==
    IF /\ get_child_nodes(b, m_path, n, enumerated) = {}
       /\ \A k \in 1..Len(b.nodes[n].vtables) :
              \/ require_fallback /\ ~b.nodes[n].vtables[k].is_fallback
              \/ ~resolves(b.nodes[n].vtables[k], found)
       /\ ~bus_node_exists(b, n, require_fallback, found)
    THEN [r |-> 0, reply |-> NoIntrospection, found_object |-> FALSE]
    ELSE [r |-> 1,
          reply |-> Introspection(m_path, bus_node_with_object_manager(b, n),
                        introspect_write_vtables(b.nodes[n].vtables, 1, require_fallback,
                                                 found, <<>>),
                        get_child_nodes(b, m_path, n, enumerated)),
          found_object |-> TRUE]

\* object_find_and_run for an Introspect call without arguments, on a bus
\* without object callbacks: [r, reply, found_object]
introspect_find_and_run(b, m_path, p, require_fallback, found, enumerated) ==
    IF p \notin DOMAIN b.nodes
    THEN [r |-> 0, reply |-> NoIntrospection, found_object |-> FALSE]
    ELSE process_introspect(b, m_path, p, require_fallback, found, enumerated)

\* the OBJECT_PATH_FOREACH_PREFIX loop of bus_process_object
RECURSIVE introspect_prefixes(_, _, _, _, _, _)
introspect_prefixes(b, m_path, prefixes, found, enumerated, found_object) ==
    IF prefixes = <<>>
    THEN IF found_object
         THEN [r |-> 1,
               reply |-> [NoIntrospection EXCEPT !.path = m_path, !.member = "UnknownMethod"],
               found_object |-> TRUE]
         ELSE [r |-> 0, reply |-> NoIntrospection, found_object |-> FALSE]
    ELSE IF introspect_find_and_run(b, m_path, Head(prefixes), TRUE, found, enumerated).r # 0
         THEN introspect_find_and_run(b, m_path, Head(prefixes), TRUE, found, enumerated)
    ELSE introspect_prefixes(b, m_path, Tail(prefixes), found, enumerated, found_object)

\* bus_process_object for an Introspect call: [bus, r, reply, found_object]
introspect(b, m_path, found, enumerated) ==
    IF DOMAIN b.nodes = {}
    THEN [bus |-> b, r |-> 0, reply |-> NoIntrospection, found_object |-> FALSE]
    ELSE [bus |-> [b EXCEPT !.nodes_modified = FALSE]] @@
         (IF introspect_find_and_run(b, m_path, m_path, FALSE, found, enumerated).r # 0
          THEN introspect_find_and_run(b, m_path, m_path, FALSE, found, enumerated)
          ELSE introspect_prefixes(b, m_path, object_path_prefixes(m_path), found, enumerated,
                                   FALSE))

----------------------------------------------------------------------------
(* Initial state and the API calls *)

Bus0(trusted, is_kernel) ==
    [nodes |-> EmptyMap, vtable_methods |-> EmptyMap, vtable_properties |-> EmptyMap,
     nodes_modified |-> FALSE, iteration_counter |-> 0,
     trusted |-> trusted, is_kernel |-> is_kernel]

Init ==
    /\ bus \in {Bus0(t, k) : t \in BOOLEAN, k \in BOOLEAN}
    /\ pc = "idle"
    /\ msg = NoMsg
    /\ fr = Frame0
    /\ obs = Obs0
    /\ ret = 0
    /\ cbops = 0
    /\ out = NoSignal
    /\ access = NoAcc

\* the inputs the API calls are made with
CallbackFns == {"cb"}
Userdatas == {"u"}
Interfaces == {"I"}
Finds == {NoFind, "find"}
EnumeratorFns == {"en"}
EmitNames == {<<"P">>, <<"Q", "P">>}

\* API calls come from outside a dispatch or from a user callback it runs
CanCall == pc = "idle" \/ (pc \in CallbackPcs /\ cbops < MaxCbOps)

CanAdd == CanCall /\ Live(bus) < MaxLive

\* bookkeeping of an API call that returned res; succeeded says that it
\* registered or removed something
Api(res, succeeded) ==
    /\ bus' = res.bus
    /\ ret' = res.r
    /\ out' = NoSignal
    /\ cbops' = IF pc = "idle" THEN cbops ELSE cbops + 1
    /\ obs' = IF pc = "idle" THEN obs
              ELSE [obs EXCEPT !.touched = @ \/ succeeded,
                               !.freed_ids = @ \cup (LiveIds(bus) \ LiveIds(res.bus)),
                               !.freed_paths = @ \cup (DOMAIN bus.nodes \ DOMAIN res.bus.nodes)]
    /\ UNCHANGED <<pc, msg, fr, access>>

AddObject(path, fallback, callback, userdata) ==
    /\ CanAdd
    /\ \E res \in {bus_add_object(bus, fallback, path, callback, userdata, NewId)} : Api(res, TRUE)

RemoveObject(path, fallback, callback, userdata) ==
    /\ CanCall
    /\ \E res \in {bus_remove_object(bus, fallback, path, callback, userdata)} :
           Api(res, res.r = 1)

AddObjectVtable(path, interface, vtable, userdata) ==
    /\ CanAdd
    /\ \E res \in {add_object_vtable_internal(bus, path, interface, vtable, FALSE, NoFind,
                                             userdata, NewId)} :
           Api(res, res.r = 0)

AddFallbackVtable(path, interface, vtable, find, userdata) ==
    /\ CanAdd
    /\ \E res \in {add_object_vtable_internal(bus, path, interface, vtable, TRUE, find,
                                             userdata, NewId)} :
           Api(res, res.r = 0)

RemoveObjectVtable(path, interface, vtable, userdata) ==
    /\ CanCall
    /\ \E res \in {remove_object_vtable_internal(bus, path, interface, vtable, FALSE, NoFind,
                                                userdata)} :
           Api(res, res.r = 1)

RemoveFallbackVtable(path, interface, vtable, find, userdata) ==
    /\ CanCall
    /\ \E res \in {remove_object_vtable_internal(bus, path, interface, vtable, TRUE, find,
                                                userdata)} :
           Api(res, res.r = 1)

AddNodeEnumerator(path, callback, userdata) ==
    /\ CanAdd
    /\ \E res \in {sd_bus_add_node_enumerator(bus, path, callback, userdata, NewId)} : Api(res, TRUE)

RemoveNodeEnumerator(path, callback, userdata) ==
    /\ CanCall
    /\ \E res \in {sd_bus_remove_node_enumerator(bus, path, callback, userdata)} :
           Api(res, res.r = 1)

AddObjectManager(path) ==
    /\ CanAdd
    /\ \E res \in {sd_bus_add_object_manager(bus, path)} : Api(res, TRUE)

RemoveObjectManager(path) ==
    /\ CanCall
    /\ \E res \in {sd_bus_remove_object_manager(bus, path)} :
           Api(res, res.r = 1)

EmitPropertiesChanged(path, interface, names, found) ==
    /\ CanCall
    /\ \E e \in {sd_bus_emit_properties_changed_strv(bus, path, interface, names, found)} :
       /\ bus' = e.bus
       /\ ret' = e.r
       /\ out' = e.signal
       /\ cbops' = IF pc = "idle" THEN cbops ELSE cbops + 1
       /\ pc' = IF e.abort THEN "crashed" ELSE pc
       /\ UNCHANGED <<msg, fr, obs, access>>

EmitInterfacesAdded(path, interfaces, found, sent) ==
    /\ CanCall
    /\ \E e \in {sd_bus_emit_interfaces_added_strv(bus, path, interfaces, found, sent)} :
       /\ bus' = e.bus
       /\ ret' = e.r
       /\ out' = e.signal
       /\ cbops' = IF pc = "idle" THEN cbops ELSE cbops + 1
       /\ UNCHANGED <<pc, msg, fr, obs, access>>

GetManagedObjects(path, found, opened, enumerated) ==
    /\ CanCall
    /\ \E e \in {get_managed_objects(bus, path, found, opened, enumerated)} :
       /\ bus' = e.bus
       /\ ret' = e.r
       /\ out' = e.reply
       /\ cbops' = IF pc = "idle" THEN cbops ELSE cbops + 1
       /\ UNCHANGED <<pc, msg, fr, obs, access>>

----------------------------------------------------------------------------
(* The registration API alone, called from outside any dispatch *)

RegNext ==
    \/ \E q \in Paths, f \in BOOLEAN, cb \in CallbackFns, u \in Userdatas :
            AddObject(q, f, cb, u)
    \/ \E q \in Paths, f \in BOOLEAN, cb \in CallbackFns, u \in Userdatas :
            RemoveObject(q, f, cb, u)
    \/ \E q \in Paths, i \in Interfaces \cup {IfPeer}, v \in Vtables, u \in Userdatas :
            AddObjectVtable(q, i, v, u)
    \/ \E q \in Paths, i \in Interfaces, v \in Vtables, fn \in Finds, u \in Userdatas :
            AddFallbackVtable(q, i, v, fn, u)
    \/ \E q \in Paths, i \in Interfaces, v \in Vtables, u \in Userdatas :
            RemoveObjectVtable(q, i, v, u)
    \/ \E q \in Paths, i \in Interfaces, v \in Vtables, fn \in Finds, u \in Userdatas :
            RemoveFallbackVtable(q, i, v, fn, u)
    \/ \E q \in Paths, en \in EnumeratorFns, u \in Userdatas : AddNodeEnumerator(q, en, u)
    \/ \E q \in Paths, en \in EnumeratorFns, u \in Userdatas : RemoveNodeEnumerator(q, en, u)
    \/ \E q \in Paths : AddObjectManager(q)
    \/ \E q \in Paths : RemoveObjectManager(q)

\* a bus as sd_bus_new leaves it: neither trusted nor kernel-mediated
InitReg ==
    /\ bus = Bus0(FALSE, FALSE)
    /\ pc = "idle"
    /\ msg = NoMsg
    /\ fr = Frame0
    /\ obs = Obs0
    /\ ret = 0
    /\ cbops = 0
    /\ out = NoSignal
    /\ access = NoAcc

SpecReg == InitReg /\ [][RegNext]_vars

----------------------------------------------------------------------------
(* The vtable registrations alone, with arrays that keep and arrays that   *)
(* break the structural rules                                              *)

\* the interfaces vtables are registered for: a plain one, the four reserved
\* ones and an invalid name
VtableInterfaces == Interfaces \cup Reserved \cup {"nodots"}

VtablePaths == {Root, PA}

VtableNext ==
    \/ \E q \in VtablePaths, i \in VtableInterfaces, v \in AllVtables, u \in Userdatas :
            AddObjectVtable(q, i, v, u)
    \/ \E q \in VtablePaths, i \in VtableInterfaces, v \in AllVtables, fn \in Finds,
          u \in Userdatas :
            AddFallbackVtable(q, i, v, fn, u)
    \/ \E q \in VtablePaths, i \in Interfaces, v \in AllVtables, u \in Userdatas :
            RemoveObjectVtable(q, i, v, u)
    \/ \E q \in VtablePaths, i \in Interfaces, v \in AllVtables, fn \in Finds,
          u \in Userdatas :
            RemoveFallbackVtable(q, i, v, fn, u)

SpecVtable == InitReg /\ [][VtableNext]_vars

----------------------------------------------------------------------------
(* The PropertiesChanged emitter called from outside any dispatch, on the  *)
(* vtables registered before                                               *)

\* the arrays registered: vtM and vtQ with EMITS_CHANGE properties, vtU and vtS
\* with properties that lack it
EmitVtables == {"vtM", "vtQ", "vtU", "vtS"}

\* property names: P (vtM, vtU), Q (vtQ), R (vtS) and one no vtable has
EmitMembers == {"P", "Q", "R", "X"}

\* the name lists: the empty one, one or two names, an invalid name
EmitLists ==
    {<<>>, <<"1bad">>, <<"1bad", "R">>, <<"R", "1bad">>}
        \cup {<<x>> : x \in EmitMembers} \cup {<<x, y>> : x \in EmitMembers, y \in EmitMembers}

\* vtables are registered at / and /a, signals are emitted for /a and /a/b
EmitAt == {Root, PA}

EmitPaths == {PA, PAB}

EmitNext ==
    \/ \E q \in EmitAt, v \in EmitVtables, u \in Userdatas : AddObjectVtable(q, "I", v, u)
    \/ \E q \in EmitAt, v \in EmitVtables, fn \in Finds, u \in Userdatas :
            AddFallbackVtable(q, "I", v, fn, u)
    \/ \E q \in EmitPaths, names \in EmitLists, found \in BOOLEAN :
            EmitPropertiesChanged(q, "I", names, found)

SpecEmit == InitReg /\ [][EmitNext]_vars

----------------------------------------------------------------------------
(* The InterfacesAdded emitter called from outside any dispatch, on the    *)
(* vtables registered before for the interfaces I and J                    *)

\* the lists of interfaces: I and J, and K that nothing is registered for
AddedLists ==
    LET S == {"I", "J", "K"} IN {<<x>> : x \in S} \cup {<<x, y>> : x \in S, y \in S}

AddedNext ==
    \/ \E q \in {Root, PA, PAB}, i \in {"I", "J"}, v \in {"vtM", "vtS"}, u \in Userdatas :
            AddObjectVtable(q, i, v, u)
    \/ \E q \in {Root, PA}, i \in {"I", "J"}, v \in {"vtM", "vtS"}, fn \in Finds,
          u \in Userdatas :
            AddFallbackVtable(q, i, v, fn, u)
    \/ \E q \in EmitPaths, interfaces \in AddedLists \cup {<<>>}, found \in BOOLEAN :
            EmitInterfacesAdded(q, interfaces, found, 1)

\* out holds no signal yet
InitAdded ==
    /\ bus = Bus0(FALSE, FALSE)
    /\ pc = "idle"
    /\ msg = NoMsg
    /\ fr = Frame0
    /\ obs = Obs0
    /\ ret = 0
    /\ cbops = 0
    /\ out = NoAdded
    /\ access = NoAcc

SpecAdded == InitAdded /\ [][AddedNext]_vars

----------------------------------------------------------------------------
(* GetManagedObjects called from outside any dispatch, on the vtables,     *)
(* object-manager markers and enumerators registered before                *)

MaxManaged == 3     \* registrations alive at once before GetManagedObjects

\* the registration calls, made while fewer than MaxManaged registrations are alive
ManagedAddObjectVtable(path, interface, vtable, userdata) ==
    /\ Live(bus) < MaxManaged
    /\ \E res \in {add_object_vtable_internal(bus, path, interface, vtable, FALSE, NoFind,
                                              userdata, NewId)} :
           Api(res, res.r = 0)

ManagedAddFallbackVtable(path, interface, vtable, find, userdata) ==
    /\ Live(bus) < MaxManaged
    /\ \E res \in {add_object_vtable_internal(bus, path, interface, vtable, TRUE, find,
                                              userdata, NewId)} :
           Api(res, res.r = 0)

ManagedAddObjectManager(path) ==
    /\ Live(bus) < MaxManaged
    /\ \E res \in {sd_bus_add_object_manager(bus, path)} : Api(res, TRUE)

ManagedAddNodeEnumerator(path, callback, userdata) ==
    /\ Live(bus) < MaxManaged
    /\ \E res \in {sd_bus_add_node_enumerator(bus, path, callback, userdata, NewId)} :
           Api(res, TRUE)

\* vtM is registered for single objects and vtS as fallback; the calls are
\* addressed to / and /a; an enumerator reports nothing or /a/b
ManagedNext ==
    \/ \E q \in Paths, i \in {"I", "J"}, u \in Userdatas : ManagedAddObjectVtable(q, i, "vtM", u)
    \/ \E q \in {Root, PA}, i \in {"I", "J"}, fn \in Finds, u \in Userdatas :
            ManagedAddFallbackVtable(q, i, "vtS", fn, u)
    \/ \E q \in {Root, PA} : ManagedAddObjectManager(q)
    \/ \E en \in EnumeratorFns, u \in Userdatas : ManagedAddNodeEnumerator(PA, en, u)
    \/ \E q \in {Root, PA}, found \in BOOLEAN, opened \in {0, 1}, enumerated \in {{}, {PAB}} :
            GetManagedObjects(q, found, opened, enumerated)

\* out holds no reply yet
InitManaged ==
    /\ bus = Bus0(FALSE, FALSE)
    /\ pc = "idle"
    /\ msg = NoMsg
    /\ fr = Frame0
    /\ obs = Obs0
    /\ ret = 0
    /\ cbops = 0
    /\ out = NoManaged
    /\ access = NoAcc

SpecManaged == InitManaged /\ [][ManagedNext]_vars

----------------------------------------------------------------------------
(* Introspect calls on a bus with vtables, enumerators and object managers *)
(* registered before, without object callbacks                             *)

Introspect(path, found, enumerated) ==
    /\ CanCall
    /\ \E e \in {introspect(bus, path, found, enumerated)} :
       /\ bus' = e.bus
       /\ ret' = e.r
       /\ out' = e.reply
       /\ cbops' = IF pc = "idle" THEN cbops ELSE cbops + 1
       /\ UNCHANGED <<pc, msg, fr, obs, access>>

\* vtM and the hidden vtHidden are registered for single objects and vtS as
\* fallback; an enumerator reports nothing or /a/b
IntrospectNext ==
    \/ \E q \in Paths, v \in {"vtM", "vtHidden"}, u \in Userdatas :
            ManagedAddObjectVtable(q, "I", v, u)
    \/ \E q \in {Root, PA}, i \in {"I", "J"}, fn \in Finds, u \in Userdatas :
            ManagedAddFallbackVtable(q, i, "vtS", fn, u)
    \/ \E q \in {Root, PA} : ManagedAddObjectManager(q)
    \/ \E en \in EnumeratorFns, u \in Userdatas : ManagedAddNodeEnumerator(PA, en, u)
    \/ \E q \in Paths, found \in BOOLEAN, enumerated \in {{}, {PAB}} :
            Introspect(q, found, enumerated)

\* out holds no reply yet
InitIntrospect ==
    /\ bus = Bus0(FALSE, FALSE)
    /\ pc = "idle"
    /\ msg = NoMsg
    /\ fr = Frame0
    /\ obs = Obs0
    /\ ret = 0
    /\ cbops = 0
    /\ out = NoIntrospection
    /\ access = NoAcc

SpecIntrospect == InitIntrospect /\ [][IntrospectNext]_vars

----------------------------------------------------------------------------
(* Dispatch of one method call: bus_process_object.  The code between two  *)
(* user callbacks runs as a sequence of steps; a user callback is a        *)
(* position at which the API calls above can be made before it returns.    *)

Message(path, interface, member, signature, arg_interface, arg_member) ==
    [path |-> path, interface |-> interface, member |-> member, signature |-> signature,
     arg_interface |-> arg_interface, arg_member |-> arg_member]

\* the method calls dispatched: I.M(s), Properties.Get(I, P),
\* Properties.Set(I, P, v), Properties.GetAll(I)
Messages ==
    { Message(PA, "I", "M", <<"s">>, "", ""),
      Message(PAB, "I", "M", <<"s">>, "", ""),
      Message(PA, IfProperties, "Get", <<"s", "s">>, "I", "P"),
      Message(PA, IfProperties, "Set", <<"s", "s", "v">>, "I", "P"),
      Message(PA, IfProperties, "GetAll", <<"s">>, "I", "") }

\* the senders of the messages dispatched
Senders ==
    { [ok |-> TRUE, uid |-> "self", caps |-> {}],
      [ok |-> TRUE, uid |-> "other", caps |-> {}],
      [ok |-> TRUE, uid |-> "other", caps |-> {CAP_NET_ADMIN}],
      [ok |-> FALSE, uid |-> "other", caps |-> {}] }

\* what user callbacks return: an error, "not handled", "handled"
Returns == {-EINVAL, 0, 1}

\* the main loop counts the message before it hands it to bus_process_object
process_running(b) == [b EXCEPT !.iteration_counter = @ + 1]

\* what a find resolver stores through its found pointer
FoundUserdata == "obj"

\* the record of a call, had the callbacks been given the path of the node
\* that serves the call
Called_node_path(kind, who) ==
    [kind |-> kind, who |-> who, p |-> fr.p, require_fallback |-> fr.require_fallback,
     attempt |-> obs.attempt, dirty |-> obs.dirty, path |-> fr.p,
     userdata |-> IF kind \in {"method", "get", "set"} THEN fr.u ELSE ""]

\* path is the path argument of the call; userdata is the userdata argument
\* of a method handler, getter or setter, as node_vtable_get_userdata left it
Called(kind, who) ==
    [kind |-> kind, who |-> who, p |-> fr.p, require_fallback |-> fr.require_fallback,
     attempt |-> obs.attempt, dirty |-> obs.dirty, path |-> msg.path,
     userdata |-> IF kind \in {"method", "get", "set"} THEN fr.u ELSE ""]

Looked(q, require_fallback) ==
    [p |-> q, require_fallback |-> require_fallback, returned |-> FALSE, r |-> 0,
     dirty |-> obs.dirty]

Callback(b, id) == ById(b.nodes[CallbackHome(b, id)].callbacks, id)

SetCallbackIteration(b, id) ==
    LET q == CallbackHome(b, id)
        i == CHOOSE k \in 1..Len(b.nodes[q].callbacks) : b.nodes[q].callbacks[k].id = id
    IN  [b EXCEPT !.nodes[q].callbacks[i].last_iteration = b.iteration_counter]

\* the vtable_member the dispatch holds is still the one the index maps its key to
MemberLive(index, key, c) == key \in DOMAIN index /\ index[key].parent.id = c.parent.id

\* bookkeeping of a user callback that returned rv
Returned(o, rv) == [o EXCEPT !.dirty = @ \/ (o.touched /\ rv = 0), !.touched = FALSE]

\* bus_process_object leaves its loops when a step returned anything but 0
process_returns_negative(r) == r < 0

process_returns(r) == r # 0

\* the reply of bus_process_object after the loop, "" for none
unknown_reply_always(found_object, m) ==
    IF streq(m.interface, IfProperties) /\ m.member \in {"Get", "Set"}
    THEN "UNKNOWN_PROPERTY" ELSE "UNKNOWN_METHOD"

unknown_reply(found_object, m) ==
    IF ~found_object THEN ""
    ELSE IF streq(m.interface, IfProperties) /\ m.member \in {"Get", "Set"}
    THEN "UNKNOWN_PROPERTY" ELSE "UNKNOWN_METHOD"

StartDispatch(m) ==
    /\ pc = "idle"
    /\ bus.iteration_counter < MaxIter
    /\ bus' = process_running(bus)
    /\ msg' = m
    /\ fr' = Frame0
    /\ obs' = Obs0
    /\ cbops' = 0
    /\ access' = NoAcc
    /\ pc' = IF DOMAIN bus.nodes = {} THEN "done" ELSE "attempt"
    /\ ret' = 0
    /\ out' = NoSignal

\* one pass of the do-while loop begins
Attempt ==
    /\ pc = "attempt"
    /\ bus' = [bus EXCEPT !.nodes_modified = FALSE]
    /\ fr' = [fr EXCEPT !.p = msg.path, !.require_fallback = FALSE,
                        !.prefixes = object_path_prefixes(msg.path), !.r = 0]
    /\ obs' = [obs EXCEPT !.attempt = @ + 1, !.dirty = FALSE, !.lookups = <<>>]
    /\ pc' = "find_and_run"
    /\ UNCHANGED <<msg, ret, cbops, out, access>>

\* object_find_and_run: the node lookup
FindAndRun ==
    /\ pc = "find_and_run"
    /\ obs' = [obs EXCEPT !.lookups = Append(@, Looked(fr.p, fr.require_fallback)),
                          !.freed_paths = @ \ {fr.p}]
    /\ IF fr.p \notin DOMAIN bus.nodes
       THEN fr' = [fr EXCEPT !.r = 0] /\ pc' = "ofr_ret"
       ELSE fr' = [fr EXCEPT !.cur = HeadOf(bus.nodes[fr.p].callbacks)] /\ pc' = "ncb_loop"
    /\ UNCHANGED <<bus, msg, ret, cbops, out, access>>

\* node_callbacks_run, had it called the callbacks of a prefix whether fallback
\* or not
NodeCallbacksRun_any ==
    /\ pc = "ncb_loop"
    /\ IF fr.cur = 0 \/ bus.nodes_modified
       THEN /\ fr' = [fr EXCEPT !.r = 0]
            /\ pc' = "after_ncb"
            /\ UNCHANGED <<bus, obs>>
       ELSE LET c == Callback(bus, fr.cur)
                next == NextOf(bus.nodes[CallbackHome(bus, fr.cur)].callbacks, fr.cur)
            IN  IF FALSE
                THEN /\ fr' = [fr EXCEPT !.cur = next]
                     /\ UNCHANGED <<bus, obs, pc>>
                ELSE IF c.last_iteration = bus.iteration_counter
                THEN /\ fr' = [fr EXCEPT !.cur = next, !.found_object = TRUE]
                     /\ UNCHANGED <<bus, obs, pc>>
                ELSE /\ bus' = SetCallbackIteration(bus, fr.cur)
                     /\ fr' = [fr EXCEPT !.found_object = TRUE]
                     /\ obs' = [obs EXCEPT !.calls = Append(@, Called("callback", <<fr.cur>>))]
                     /\ pc' = "in_callback"
    /\ UNCHANGED <<msg, ret, cbops, out, access>>

\* node_callbacks_run: one round of LIST_FOREACH up to the call of c->callback
NodeCallbacksRun ==
    /\ pc = "ncb_loop"
    /\ IF fr.cur = 0 \/ bus.nodes_modified
       THEN /\ fr' = [fr EXCEPT !.r = 0]
            /\ pc' = "after_ncb"
            /\ UNCHANGED <<bus, obs>>
       ELSE LET c == Callback(bus, fr.cur)
                next == NextOf(bus.nodes[CallbackHome(bus, fr.cur)].callbacks, fr.cur)
            IN  IF fr.require_fallback /\ ~c.is_fallback
                THEN /\ fr' = [fr EXCEPT !.cur = next]
                     /\ UNCHANGED <<bus, obs, pc>>
                ELSE IF c.last_iteration = bus.iteration_counter
                THEN /\ fr' = [fr EXCEPT !.cur = next, !.found_object = TRUE]
                     /\ UNCHANGED <<bus, obs, pc>>
                ELSE /\ bus' = SetCallbackIteration(bus, fr.cur)
                     /\ fr' = [fr EXCEPT !.found_object = TRUE]
                     /\ obs' = [obs EXCEPT !.calls = Append(@, Called("callback", <<fr.cur>>))]
                     /\ pc' = "in_callback"
    /\ UNCHANGED <<msg, ret, cbops, out, access>>

\* the node callback returns rv; LIST_FOREACH then reads c->callbacks_next, of
\* a freed element if the callback removed the registration it was called for
CallbackReturn(rv) ==
    /\ pc = "in_callback"
    /\ LET e == bus_maybe_reply_error(rv, "") IN
       /\ obs' = [Returned(obs, rv) EXCEPT !.replies = @ \o e.reply]
       /\ IF e.r # 0
          THEN fr' = [fr EXCEPT !.r = e.r] /\ pc' = "after_ncb"
          ELSE IF fr.cur \in CallbackIds(bus)
          THEN /\ fr' = [fr EXCEPT !.cur = NextOf(bus.nodes[CallbackHome(bus, fr.cur)].callbacks,
                                                  fr.cur)]
               /\ pc' = "ncb_loop"
          ELSE \/ pc' = "crashed" /\ fr' = fr
               \/ \E nx \in {0} \cup CallbackIds(bus) :
                      fr' = [fr EXCEPT !.cur = nx] /\ pc' = "ncb_loop"
    /\ UNCHANGED <<bus, msg, ret, cbops, out, access>>

\* the method index lookup, had the result of node_callbacks_run been ignored
MethodLookup_ignore_r ==
    /\ pc = "after_ncb"
    /\ LET key == Key(fr.p, msg.interface, msg.member) IN
       IF bus.nodes_modified THEN pc' = "ofr_ret" /\ fr' = [fr EXCEPT !.r = 0]
       ELSE IF key \in DOMAIN bus.vtable_methods
       THEN pc' = "method_run" /\ fr' = [fr EXCEPT !.key = key, !.c = bus.vtable_methods[key]]
       ELSE pc' = "props" /\ fr' = fr
    /\ UNCHANGED <<bus, msg, obs, ret, cbops, out, access>>
\* object_find_and_run after node_callbacks_run: the method index lookup
MethodLookup ==
    /\ pc = "after_ncb"
    /\ LET key == Key(fr.p, msg.interface, msg.member) IN
       IF fr.r # 0 THEN pc' = "ofr_ret" /\ fr' = fr
       ELSE IF bus.nodes_modified THEN pc' = "ofr_ret" /\ fr' = [fr EXCEPT !.r = 0]
       ELSE IF key \in DOMAIN bus.vtable_methods
       THEN pc' = "method_run" /\ fr' = [fr EXCEPT !.key = key, !.c = bus.vtable_methods[key]]
       ELSE pc' = "props" /\ fr' = fr
    /\ UNCHANGED <<bus, msg, obs, ret, cbops, out, access>>

Checked(peer, c, a) ==
    [checked |-> TRUE, peer |-> peer, v |-> EntryOf(c), start |-> StartOf(c), res |-> a]

VtableHome(b, id) ==
    CHOOSE q \in DOMAIN b.nodes : id \in {c.id : c \in Range(b.nodes[q].vtables)}

Vtable(b, id) == ById(b.nodes[VtableHome(b, id)].vtables, id)

\* method_callbacks_run up to node_vtable_get_userdata; peer is the sender whose
\* credentials check_access queries
MethodCallbacksRun(peer) ==
    /\ pc = "method_run"
    /\ LET parent == ParentOf(bus, fr.c)
           a == check_access(bus, peer, EntryOf(fr.c), StartOf(fr.c))
           e == bus_maybe_reply_error(a.r, a.error)
       IN  IF fr.require_fallback /\ ~parent.is_fallback
           THEN /\ fr' = [fr EXCEPT !.r = 0]
                /\ pc' = "after_method"
                /\ UNCHANGED <<obs, access>>
           ELSE /\ access' = Checked(peer, fr.c, a)
                /\ IF a.r < 0
                   THEN /\ fr' = [fr EXCEPT !.r = e.r]
                        /\ obs' = [obs EXCEPT !.replies = @ \o e.reply]
                        /\ pc' = "after_method"
                   ELSE IF parent.find = NoFind
                   THEN /\ pc' = "method_found"
                        /\ fr' = [fr EXCEPT !.u = parent.userdata]
                        /\ obs' = obs
                   ELSE /\ fr' = [fr EXCEPT !.cont = "method"]
                        /\ obs' = [obs EXCEPT !.calls = Append(@, Called("find", <<parent.id>>))]
                        /\ pc' = "in_find"
    /\ UNCHANGED <<bus, msg, ret, cbops, out>>

\* LIST_FOREACH of property_get_all_callbacks_run goes on with c->vtables_next,
\* read from freed memory if the vtable was removed meanwhile
NextVtable(f) ==
    IF fr.cur \in VtableIds(bus)
    THEN /\ fr' = [f EXCEPT !.cur = NextOf(bus.nodes[VtableHome(bus, fr.cur)].vtables, fr.cur)]
         /\ pc' = "getall_loop"
    ELSE \/ pc' = "crashed" /\ fr' = fr
         \/ \E nx \in {0} \cup VtableIds(bus) :
                fr' = [f EXCEPT !.cur = nx] /\ pc' = "getall_loop"

\* a find resolver returns rv to node_vtable_get_userdata, called by
\* method_callbacks_run, vtable_property_get_userdata, bus_node_exists or
\* property_get_all_callbacks_run
FindReturn(rv) ==
    /\ pc = "in_find"
    /\ LET e == bus_maybe_reply_error(rv, "")
           o == Returned(obs, rv)
       IN  CASE fr.cont = "method" ->
                  IF rv <= 0
                  THEN /\ fr' = [fr EXCEPT !.r = e.r]
                       /\ obs' = [o EXCEPT !.replies = @ \o e.reply]
                       /\ pc' = "after_method"
                  ELSE /\ fr' = [fr EXCEPT !.u = FoundUserdata]
                       /\ obs' = o
                       /\ pc' = "method_found"
             [] fr.cont = "property" ->
                  IF rv < 0
                  THEN /\ fr' = [fr EXCEPT !.r = e.r]
                       /\ obs' = [o EXCEPT !.replies = @ \o e.reply]
                       /\ pc' = "ofr_ret"
                  ELSE IF rv = 0 \/ bus.nodes_modified
                  THEN /\ fr' = [fr EXCEPT !.r = 0]
                       /\ obs' = o
                       /\ pc' = "ofr_tail"
                  ELSE /\ fr' = [fr EXCEPT !.u = FoundUserdata]
                       /\ obs' = o
                       /\ pc' = "prop_found"
             [] fr.cont = "getall" ->
                  IF rv < 0
                  THEN /\ fr' = [fr EXCEPT !.r = e.r]
                       /\ obs' = [o EXCEPT !.replies = @ \o e.reply]
                       /\ pc' = "ofr_ret"
                  ELSE IF bus.nodes_modified
                  THEN /\ fr' = [fr EXCEPT !.r = 0]
                       /\ obs' = o
                       /\ pc' = "ofr_tail"
                  ELSE IF rv = 0
                  THEN obs' = o /\ NextVtable(fr)
                  ELSE /\ fr' = [fr EXCEPT !.u = FoundUserdata]
                       /\ obs' = o
                       /\ pc' = "getall_found"
             [] OTHER ->
                  /\ obs' = o
                  /\ IF rv > 0
                     THEN fr' = [fr EXCEPT !.found_object = TRUE, !.r = 0] /\ pc' = "ofr_ret"
                     ELSE IF bus.nodes_modified
                     THEN fr' = [fr EXCEPT !.r = 0] /\ pc' = "ofr_ret"
                     ELSE IF fr.cur \in VtableIds(bus)
                     THEN /\ fr' = [fr EXCEPT !.cur = NextOf(bus.nodes[VtableHome(bus, fr.cur)].vtables,
                                                             fr.cur)]
                          /\ pc' = "exists_loop"
                     ELSE \/ pc' = "crashed" /\ fr' = fr
                          \/ \E nx \in {0} \cup VtableIds(bus) :
                                 fr' = [fr EXCEPT !.cur = nx] /\ pc' = "exists_loop"
    /\ UNCHANGED <<bus, msg, ret, cbops, out, access>>

\* method_callbacks_run, had it not compared the signature of the message
\* with the one of the vtable entry
MethodFound_any_signature ==
    /\ pc = "method_found"
    /\ IF bus.nodes_modified
       THEN /\ fr' = [fr EXCEPT !.r = 0]
            /\ pc' = "after_method"
            /\ UNCHANGED <<bus, obs>>
       ELSE LET live == MemberLive(bus.vtable_methods, fr.key, fr.c)
                c == IF live THEN bus.vtable_methods[fr.key] ELSE fr.c
                v == EntryOf(c)
                stamped == IF live
                           THEN [bus EXCEPT !.vtable_methods[fr.key].last_iteration =
                                                bus.iteration_counter]
                           ELSE bus
                f == [fr EXCEPT !.found_object = TRUE,
                                !.c.last_iteration = bus.iteration_counter]
            IN  \/ /\ ~live
                   /\ pc' = "crashed"
                   /\ UNCHANGED <<bus, fr, obs>>
                \/ IF c.last_iteration = bus.iteration_counter
                   THEN /\ fr' = [fr EXCEPT !.found_object = TRUE, !.r = 0]
                        /\ pc' = "after_method"
                        /\ UNCHANGED <<bus, obs>>
                   ELSE /\ bus' = stamped
                        /\ IF FALSE
                           THEN /\ fr' = [f EXCEPT !.r = 1]
                                /\ obs' = [obs EXCEPT !.replies = Append(@, "INVALID_ARGS")]
                                /\ pc' = "after_method"
                           ELSE IF v.handler
                           THEN /\ fr' = f
                                /\ obs' = [obs EXCEPT !.calls = Append(@, Called("method", fr.key))]
                                /\ pc' = "in_method"
                           ELSE /\ fr' = [f EXCEPT !.r = 1]
                                /\ obs' = [obs EXCEPT !.replies = Append(@, "METHOD_RETURN")]
                                /\ pc' = "after_method"
    /\ UNCHANGED <<msg, ret, cbops, out, access>>

\* method_callbacks_run after node_vtable_get_userdata: c is read again, freed
\* memory if the resolver removed the vtable
MethodFound ==
    /\ pc = "method_found"
    /\ IF bus.nodes_modified
       THEN /\ fr' = [fr EXCEPT !.r = 0]
            /\ pc' = "after_method"
            /\ UNCHANGED <<bus, obs>>
       ELSE LET live == MemberLive(bus.vtable_methods, fr.key, fr.c)
                c == IF live THEN bus.vtable_methods[fr.key] ELSE fr.c
                v == EntryOf(c)
                stamped == IF live
                           THEN [bus EXCEPT !.vtable_methods[fr.key].last_iteration =
                                                bus.iteration_counter]
                           ELSE bus
                f == [fr EXCEPT !.found_object = TRUE,
                                !.c.last_iteration = bus.iteration_counter]
            IN  \/ /\ ~live
                   /\ pc' = "crashed"
                   /\ UNCHANGED <<bus, fr, obs>>
                \/ IF c.last_iteration = bus.iteration_counter
                   THEN /\ fr' = [fr EXCEPT !.found_object = TRUE, !.r = 0]
                        /\ pc' = "after_method"
                        /\ UNCHANGED <<bus, obs>>
                   ELSE /\ bus' = stamped
                        /\ IF msg.signature # v.signature
                           THEN /\ fr' = [f EXCEPT !.r = 1]
                                /\ obs' = [obs EXCEPT !.replies = Append(@, "INVALID_ARGS")]
                                /\ pc' = "after_method"
                           ELSE IF v.handler
                           THEN /\ fr' = f
                                /\ obs' = [obs EXCEPT !.calls = Append(@, Called("method", fr.key))]
                                /\ pc' = "in_method"
                           ELSE /\ fr' = [f EXCEPT !.r = 1]
                                /\ obs' = [obs EXCEPT !.replies = Append(@, "METHOD_RETURN")]
                                /\ pc' = "after_method"
    /\ UNCHANGED <<msg, ret, cbops, out, access>>

\* the method handler returns rv
MethodReturn(rv) ==
    /\ pc = "in_method"
    /\ LET e == bus_maybe_reply_error(rv, "") IN
       /\ fr' = [fr EXCEPT !.r = e.r]
       /\ obs' = [Returned(obs, rv) EXCEPT !.replies = @ \o e.reply]
    /\ pc' = "after_method"
    /\ UNCHANGED <<bus, msg, ret, cbops, out, access>>

\* object_find_and_run after method_callbacks_run
AfterMethod ==
    /\ pc = "after_method"
    /\ IF fr.r # 0 THEN pc' = "ofr_ret" /\ fr' = fr
       ELSE IF bus.nodes_modified THEN pc' = "ofr_ret" /\ fr' = [fr EXCEPT !.r = 0]
       ELSE pc' = "props" /\ fr' = fr
    /\ UNCHANGED <<bus, msg, obs, ret, cbops, out, access>>

\* property_get_all_callbacks_run: found_interface before the loop; iface is
\* NULL for an empty interface argument
found_interface_default(iface) ==
    iface = "" \/ streq(iface, IfProperties) \/ streq(iface, IfPeer)
               \/ streq(iface, IfIntrospectable)

\* object_find_and_run: Properties.Get and Properties.Set look the property
\* up, Properties.GetAll starts at the head of the node's vtable list
PropertyLookup ==
    /\ pc = "props"
    /\ LET key == Key(fr.p, msg.arg_interface, msg.arg_member) IN
       IF /\ streq(msg.interface, IfProperties)
          /\ msg.member \in {"Get", "Set"}
          /\ key \in DOMAIN bus.vtable_properties
       THEN pc' = "prop_run" /\ fr' = [fr EXCEPT !.key = key, !.c = bus.vtable_properties[key]]
       ELSE IF streq(msg.interface, IfProperties) /\ msg.member = "GetAll"
       THEN IF fr.p \in DOMAIN bus.nodes
            THEN /\ fr' = [fr EXCEPT !.cur = HeadOf(bus.nodes[fr.p].vtables),
                                     !.found_interface = found_interface_default(msg.arg_interface),
                                     !.reply = <<>>]
                 /\ pc' = "getall_loop"
            ELSE \/ pc' = "crashed" /\ fr' = fr
                 \/ \E first \in {0} \cup VtableIds(bus) :
                        /\ fr' = [fr EXCEPT !.cur = first,
                                            !.found_interface =
                                                found_interface_default(msg.arg_interface),
                                            !.reply = <<>>]
                        /\ pc' = "getall_loop"
       ELSE pc' = "ofr_tail" /\ fr' = fr
    /\ UNCHANGED <<bus, msg, obs, ret, cbops, out, access>>

\* property_get_set_callbacks_run up to vtable_property_get_userdata
PropertyGetSetCallbacksRun ==
    /\ pc = "prop_run"
    /\ LET parent == ParentOf(bus, fr.c) IN
       IF fr.require_fallback /\ ~parent.is_fallback
       THEN /\ fr' = [fr EXCEPT !.r = 0]
            /\ pc' = "ofr_tail"
            /\ obs' = obs
       ELSE IF parent.find = NoFind
       THEN /\ pc' = "prop_found"
            /\ fr' = [fr EXCEPT !.u = parent.userdata]
            /\ obs' = obs
       ELSE /\ fr' = [fr EXCEPT !.cont = "property"]
            /\ obs' = [obs EXCEPT !.calls = Append(@, Called("find", <<parent.id>>))]
            /\ pc' = "in_find"
    /\ UNCHANGED <<bus, msg, ret, cbops, out, access>>

\* property_get_set_callbacks_run, had it run the access check before it
\* looks at the kind of call
PropertyFound_access_first(peer) ==
    /\ pc = "prop_found"
    /\ LET live == MemberLive(bus.vtable_properties, fr.key, fr.c)
           c == IF live THEN bus.vtable_properties[fr.key] ELSE fr.c
           v == EntryOf(c)
           stamped == IF live
                      THEN [bus EXCEPT !.vtable_properties[fr.key].last_iteration =
                                           bus.iteration_counter]
                      ELSE bus
           f == [fr EXCEPT !.found_object = TRUE]
           a == check_access(bus, peer, v, StartOf(c))
           e == bus_maybe_reply_error(a.r, a.error)
       IN  \/ /\ ~live
              /\ pc' = "crashed"
              /\ UNCHANGED <<bus, fr, obs, access>>
           \/ IF msg.member = "Get"
              THEN /\ bus' = bus
                   /\ access' = Checked(peer, c, a)
                   /\ IF a.r < 0
                      THEN /\ fr' = [f EXCEPT !.r = e.r]
                           /\ obs' = [obs EXCEPT !.replies = @ \o e.reply]
                           /\ pc' = "ofr_ret"
                      ELSE IF v.get
                      THEN /\ fr' = f
                           /\ obs' = [obs EXCEPT !.calls = Append(@, Called("get", fr.key))]
                           /\ pc' = "in_get"
                      ELSE /\ fr' = [f EXCEPT !.r = 1]
                           /\ obs' = [obs EXCEPT !.replies = Append(@, "METHOD_RETURN")]
                           /\ pc' = "ofr_ret"
              ELSE IF a.r < 0
              THEN /\ fr' = [f EXCEPT !.r = e.r]
                   /\ obs' = [obs EXCEPT !.replies = @ \o e.reply]
                   /\ pc' = "ofr_ret"
                   /\ access' = Checked(peer, c, a)
                   /\ bus' = bus
              ELSE IF v.type # "WRITABLE_PROPERTY"
              THEN /\ fr' = [f EXCEPT !.r = 1]
                   /\ obs' = [obs EXCEPT !.replies = Append(@, "PROPERTY_READ_ONLY")]
                   /\ pc' = "ofr_ret"
                   /\ access' = Checked(peer, c, a)
                   /\ bus' = bus
              ELSE IF c.last_iteration = bus.iteration_counter
              THEN /\ fr' = [f EXCEPT !.r = 0]
                   /\ pc' = "ofr_tail"
                   /\ UNCHANGED <<bus, obs, access>>
              ELSE /\ bus' = stamped
                   /\ access' = Checked(peer, c, a)
                   /\ IF a.r < 0
                      THEN /\ fr' = [f EXCEPT !.r = e.r, !.c.last_iteration = bus.iteration_counter]
                           /\ obs' = [obs EXCEPT !.replies = @ \o e.reply]
                           /\ pc' = "ofr_ret"
                      ELSE IF v.set
                      THEN /\ fr' = [f EXCEPT !.c.last_iteration = bus.iteration_counter]
                           /\ obs' = [obs EXCEPT !.calls = Append(@, Called("set", fr.key))]
                           /\ pc' = "in_set"
                      ELSE /\ fr' = [f EXCEPT !.r = 1, !.c.last_iteration = bus.iteration_counter]
                           /\ obs' = [obs EXCEPT !.replies = Append(@, "METHOD_RETURN")]
                           /\ pc' = "ofr_ret"
    /\ UNCHANGED <<msg, ret, cbops, out>>

\* property_get_set_callbacks_run after the userdata is resolved, up to the
\* call of the getter or setter
PropertyFound(peer) ==
    /\ pc = "prop_found"
    /\ LET live == MemberLive(bus.vtable_properties, fr.key, fr.c)
           c == IF live THEN bus.vtable_properties[fr.key] ELSE fr.c
           v == EntryOf(c)
           stamped == IF live
                      THEN [bus EXCEPT !.vtable_properties[fr.key].last_iteration =
                                           bus.iteration_counter]
                      ELSE bus
           f == [fr EXCEPT !.found_object = TRUE]
           a == check_access(bus, peer, v, StartOf(c))
           e == bus_maybe_reply_error(a.r, a.error)
       IN  \/ /\ ~live
              /\ pc' = "crashed"
              /\ UNCHANGED <<bus, fr, obs, access>>
           \/ IF msg.member = "Get"
              THEN /\ UNCHANGED <<bus, access>>
                   /\ IF v.get
                      THEN /\ fr' = f
                           /\ obs' = [obs EXCEPT !.calls = Append(@, Called("get", fr.key))]
                           /\ pc' = "in_get"
                      ELSE /\ fr' = [f EXCEPT !.r = 1]
                           /\ obs' = [obs EXCEPT !.replies = Append(@, "METHOD_RETURN")]
                           /\ pc' = "ofr_ret"
              ELSE IF v.type # "WRITABLE_PROPERTY"
              THEN /\ fr' = [f EXCEPT !.r = 1]
                   /\ obs' = [obs EXCEPT !.replies = Append(@, "PROPERTY_READ_ONLY")]
                   /\ pc' = "ofr_ret"
                   /\ UNCHANGED <<bus, access>>
              ELSE IF c.last_iteration = bus.iteration_counter
              THEN /\ fr' = [f EXCEPT !.r = 0]
                   /\ pc' = "ofr_tail"
                   /\ UNCHANGED <<bus, obs, access>>
              ELSE /\ bus' = stamped
                   /\ access' = Checked(peer, c, a)
                   /\ IF a.r < 0
                      THEN /\ fr' = [f EXCEPT !.r = e.r, !.c.last_iteration = bus.iteration_counter]
                           /\ obs' = [obs EXCEPT !.replies = @ \o e.reply]
                           /\ pc' = "ofr_ret"
                      ELSE IF v.set
                      THEN /\ fr' = [f EXCEPT !.c.last_iteration = bus.iteration_counter]
                           /\ obs' = [obs EXCEPT !.calls = Append(@, Called("set", fr.key))]
                           /\ pc' = "in_set"
                      ELSE /\ fr' = [f EXCEPT !.r = 1, !.c.last_iteration = bus.iteration_counter]
                           /\ obs' = [obs EXCEPT !.replies = Append(@, "METHOD_RETURN")]
                           /\ pc' = "ofr_ret"
    /\ UNCHANGED <<msg, ret, cbops, out>>

\* property_get_set_callbacks_run, had it sent the reply before looking at
\* nodes_modified
PropertyReturned_reply_first(rv) ==
    LET e == bus_maybe_reply_error(rv, "") IN
    /\ IF rv < 0
       THEN /\ fr' = [fr EXCEPT !.r = e.r]
            /\ obs' = [Returned(obs, rv) EXCEPT !.replies = @ \o e.reply]
            /\ pc' = "ofr_ret"
       ELSE /\ obs' = [Returned(obs, rv) EXCEPT !.replies = Append(@, "METHOD_RETURN")]
            /\ IF bus.nodes_modified
               THEN fr' = [fr EXCEPT !.r = 0] /\ pc' = "ofr_tail"
               ELSE fr' = [fr EXCEPT !.r = 1] /\ pc' = "ofr_ret"
    /\ UNCHANGED <<bus, msg, ret, cbops, out, access>>

\* what follows the getter or setter in property_get_set_callbacks_run
PropertyReturned(rv) ==
    LET e == bus_maybe_reply_error(rv, "") IN
    /\ IF rv < 0
       THEN /\ fr' = [fr EXCEPT !.r = e.r]
            /\ obs' = [Returned(obs, rv) EXCEPT !.replies = @ \o e.reply]
            /\ pc' = "ofr_ret"
       ELSE IF bus.nodes_modified
       THEN /\ fr' = [fr EXCEPT !.r = 0]
            /\ obs' = Returned(obs, rv)
            /\ pc' = "ofr_tail"
       ELSE /\ fr' = [fr EXCEPT !.r = 1]
            /\ obs' = [Returned(obs, rv) EXCEPT !.replies = Append(@, "METHOD_RETURN")]
            /\ pc' = "ofr_ret"
    /\ UNCHANGED <<bus, msg, ret, cbops, out, access>>

GetReturn(rv) == pc = "in_get" /\ PropertyReturned(rv)

SetReturn(rv) == pc = "in_set" /\ PropertyReturned(rv)

\* property_get_all_callbacks_run: one round of LIST_FOREACH up to
\* node_vtable_get_userdata, and what follows the loop
GetAllCallbacksRun ==
    /\ pc = "getall_loop"
    /\ IF fr.cur = 0
       THEN /\ fr' = [fr EXCEPT !.r = 1]
            /\ obs' = [obs EXCEPT !.replies =
                           Append(@, IF fr.found_interface THEN "METHOD_RETURN"
                                     ELSE "UNKNOWN_INTERFACE")]
            /\ pc' = "ofr_ret"
       ELSE LET c == Vtable(bus, fr.cur)
                next == NextOf(bus.nodes[VtableHome(bus, fr.cur)].vtables, fr.cur)
            IN  IF fr.require_fallback /\ ~c.is_fallback
                THEN fr' = [fr EXCEPT !.cur = next] /\ UNCHANGED <<pc, obs>>
                ELSE IF c.find = NoFind
                THEN /\ fr' = [fr EXCEPT !.w = c, !.u = c.userdata]
                     /\ pc' = "getall_found"
                     /\ obs' = obs
                ELSE /\ fr' = [fr EXCEPT !.w = c, !.cont = "getall"]
                     /\ obs' = [obs EXCEPT !.calls = Append(@, Called("find", <<c.id>>))]
                     /\ pc' = "in_find"
    /\ UNCHANGED <<bus, msg, ret, cbops, out, access>>

\* property_get_all_callbacks_run after node_vtable_get_userdata resolved: c is
\* read again, freed memory if the resolver removed the vtable
GetAllFound ==
    /\ pc = "getall_found"
    /\ IF bus.nodes_modified
       THEN fr' = [fr EXCEPT !.r = 0] /\ pc' = "ofr_tail"
       ELSE LET f == [fr EXCEPT !.found_object = TRUE] IN
            \/ /\ fr.cur \notin VtableIds(bus)
               /\ pc' = "crashed"
               /\ fr' = fr
            \/ IF msg.arg_interface # "" /\ ~streq(fr.w.interface, msg.arg_interface)
               THEN NextVtable(f)
               ELSE /\ fr' = [f EXCEPT !.found_interface = TRUE, !.k = 2]
                    /\ pc' = "getall_props"
    /\ UNCHANGED <<bus, msg, obs, ret, cbops, out, access>>

\* vtable_append_all_properties for the vtable of the running round: one round
\* of its loop up to the call of a getter, and its return to the caller
VtableAppendAllProperties ==
    /\ pc = "getall_props"
    /\ LET vt == sd_bus_vtable(fr.w.vtable) IN
       IF "HIDDEN" \in vt[1].flags \/ fr.k > Len(vt)
       THEN IF bus.nodes_modified
            THEN fr' = [fr EXCEPT !.r = 0] /\ pc' = "ofr_tail" /\ obs' = obs
            ELSE obs' = obs /\ NextVtable(fr)
       ELSE LET v == vt[fr.k] IN
            IF ~IsProperty(v) \/ "HIDDEN" \in v.flags
            THEN fr' = [fr EXCEPT !.k = @ + 1] /\ UNCHANGED <<pc, obs>>
            ELSE IF v.get
            THEN /\ obs' = [obs EXCEPT !.calls =
                                Append(@, Called("get", Key(fr.p, fr.w.interface, v.member)))]
                 /\ pc' = "in_getall_get"
                 /\ fr' = fr
            ELSE IF bus.nodes_modified
            THEN fr' = [fr EXCEPT !.r = 0] /\ pc' = "ofr_tail" /\ obs' = obs
            ELSE /\ fr' = [fr EXCEPT !.reply = Append(@, v.member), !.k = @ + 1]
                 /\ UNCHANGED <<pc, obs>>
    /\ UNCHANGED <<bus, msg, ret, cbops, out, access>>

\* the getter called by vtable_append_all_properties returns rv
GetAllGetReturn(rv) ==
    /\ pc = "in_getall_get"
    /\ LET e == bus_maybe_reply_error(rv, "")
           v == sd_bus_vtable(fr.w.vtable)[fr.k]
       IN  IF rv < 0
           THEN /\ fr' = [fr EXCEPT !.r = e.r]
                /\ obs' = [Returned(obs, rv) EXCEPT !.replies = @ \o e.reply]
                /\ pc' = "ofr_ret"
           ELSE IF bus.nodes_modified
           THEN /\ fr' = [fr EXCEPT !.r = 0]
                /\ obs' = Returned(obs, rv)
                /\ pc' = "ofr_tail"
           ELSE /\ fr' = [fr EXCEPT !.reply = Append(@, v.member), !.k = @ + 1]
                /\ obs' = Returned(obs, rv)
                /\ pc' = "getall_props"
    /\ UNCHANGED <<bus, msg, ret, cbops, out, access>>

\* the end of object_find_and_run and the callbacks loop of bus_node_exists;
\* n is freed memory if a callback removed the last registration of the node
NodeExists ==
    /\ pc = "ofr_tail"
    /\ IF bus.nodes_modified \/ fr.found_object
       THEN fr' = [fr EXCEPT !.r = 0] /\ pc' = "ofr_ret"
       ELSE IF fr.p \in obs.freed_paths
       THEN \/ pc' = "crashed" /\ fr' = fr
            \/ \E found \in BOOLEAN :
                   fr' = [fr EXCEPT !.r = 0, !.found_object = found] /\ pc' = "ofr_ret"
       ELSE IF \E i \in 1..Len(bus.nodes[fr.p].callbacks) :
                   fr.require_fallback => bus.nodes[fr.p].callbacks[i].is_fallback
       THEN fr' = [fr EXCEPT !.r = 0, !.found_object = TRUE] /\ pc' = "ofr_ret"
       ELSE fr' = [fr EXCEPT !.cur = HeadOf(bus.nodes[fr.p].vtables)] /\ pc' = "exists_loop"
    /\ UNCHANGED <<bus, msg, obs, ret, cbops, out, access>>

\* bus_node_exists: one round of the vtables loop, and what follows the loop
NodeExistsVtables ==
    /\ pc = "exists_loop"
    /\ IF fr.cur = 0
       THEN IF fr.p \in obs.freed_paths
            THEN \/ pc' = "crashed" /\ UNCHANGED <<fr, obs>>
                 \/ \E found \in BOOLEAN :
                        /\ fr' = [fr EXCEPT !.r = 0, !.found_object = found]
                        /\ pc' = "ofr_ret"
                        /\ obs' = obs
            ELSE /\ fr' = [fr EXCEPT !.r = 0,
                                     !.found_object =
                                         /\ ~fr.require_fallback
                                         /\ \/ bus.nodes[fr.p].enumerators # <<>>
                                            \/ bus.nodes[fr.p].object_manager]
                 /\ pc' = "ofr_ret"
                 /\ obs' = obs
       ELSE LET c == Vtable(bus, fr.cur)
                next == NextOf(bus.nodes[VtableHome(bus, fr.cur)].vtables, fr.cur)
            IN  IF fr.require_fallback /\ ~c.is_fallback
                THEN fr' = [fr EXCEPT !.cur = next] /\ UNCHANGED <<pc, obs>>
                ELSE IF c.find = NoFind
                THEN /\ fr' = [fr EXCEPT !.r = 0, !.found_object = TRUE]
                     /\ pc' = "ofr_ret"
                     /\ obs' = obs
                ELSE /\ fr' = [fr EXCEPT !.cont = "exists"]
                     /\ obs' = [obs EXCEPT !.calls = Append(@, Called("find", <<c.id>>))]
                     /\ pc' = "in_find"
    /\ UNCHANGED <<bus, msg, ret, cbops, out, access>>

\* bus_process_object after a call of object_find_and_run: return, or go on
\* with the next prefix
NextPrefix ==
    /\ pc = "ofr_ret"
    /\ obs' = [obs EXCEPT !.lookups[Len(obs.lookups)].returned = TRUE,
                          !.lookups[Len(obs.lookups)].r = fr.r]
    /\ IF process_returns(fr.r)
       THEN pc' = "done" /\ fr' = fr
       ELSE IF fr.prefixes = <<>> \/ bus.nodes_modified
       THEN pc' = "loop_end" /\ fr' = fr
       ELSE /\ fr' = [fr EXCEPT !.p = Head(fr.prefixes), !.prefixes = Tail(fr.prefixes),
                                !.require_fallback = TRUE]
            /\ pc' = "find_and_run"
    /\ UNCHANGED <<bus, msg, ret, cbops, out, access>>

\* the loop condition of bus_process_object and what follows the loop
LoopEnd ==
    /\ pc = "loop_end"
    /\ IF bus.nodes_modified
       THEN pc' = "attempt" /\ UNCHANGED <<fr, obs>>
       ELSE LET reply == unknown_reply(fr.found_object, msg) IN
            /\ fr' = [fr EXCEPT !.r = IF reply = "" THEN 0 ELSE 1]
            /\ obs' = [obs EXCEPT !.ended = TRUE,
                                  !.replies = IF reply = "" THEN @ ELSE Append(@, reply)]
            /\ pc' = "done"
    /\ UNCHANGED <<bus, msg, ret, cbops, out, access>>

\* bus_process_object returns
Finish ==
    /\ pc = "done"
    /\ pc' = "idle"
    /\ ret' = fr.r
    /\ msg' = NoMsg
    /\ fr' = Frame0
    /\ obs' = Obs0
    /\ cbops' = 0
    /\ access' = NoAcc
    /\ UNCHANGED <<bus, out>>

----------------------------------------------------------------------------
(* The engine with its callers: registrations from outside a dispatch, the *)
(* dispatch of a message, and the API calls of the user callbacks it runs  *)

\* the arguments of an API call: one set for the calls from outside a
\* dispatch, one for the calls user callbacks make
Args(outside, inside) == IF pc = "idle" THEN outside ELSE inside

\* node callbacks: fallback ones at the prefixes, plain ones at the paths called
ObjectArgs == {<<Root, TRUE>>, <<PA, TRUE>>, <<PA, FALSE>>, <<PAB, FALSE>>}

Next ==
    \/ \E a \in Args(ObjectArgs, {<<PA, TRUE>>}) : AddObject(a[1], a[2], "cb", "u")
    \/ \E a \in Args(ObjectArgs, {<<PA, TRUE>>}) : RemoveObject(a[1], a[2], "cb", "u")
    \/ \E v \in Args({"vtM", "vtU"}, {"vtM"}) : AddObjectVtable(PA, "I", v, "u")
    \/ \E v \in Args({"vtM", "vtU"}, {"vtM"}) : RemoveObjectVtable(PA, "I", v, "u")
    \/ pc = "idle" /\ AddFallbackVtable(Root, "I", "vtM", "find", "u")
    \/ pc = "idle" /\ RemoveFallbackVtable(Root, "I", "vtM", "find", "u")
    \/ pc = "idle" /\ AddObjectManager(PA)
    \/ pc = "idle" /\ RemoveObjectManager(PA)
    \/ pc # "idle" /\ EmitPropertiesChanged(PA, "I", <<"P">>, TRUE)
    \/ \E m \in Messages : StartDispatch(m)
    \/ Attempt
    \/ FindAndRun
    \/ NodeCallbacksRun
    \/ \E rv \in Returns : CallbackReturn(rv)
    \/ MethodLookup
    \/ \E peer \in Senders : MethodCallbacksRun(peer)
    \/ \E rv \in Returns : FindReturn(rv)
    \/ MethodFound
    \/ \E rv \in Returns : MethodReturn(rv)
    \/ AfterMethod
    \/ PropertyLookup
    \/ PropertyGetSetCallbacksRun
    \/ \E peer \in Senders : PropertyFound(peer)
    \/ \E rv \in {-EINVAL, 0} : GetReturn(rv)
    \/ \E rv \in {-EINVAL, 0} : SetReturn(rv)
    \/ GetAllCallbacksRun
    \/ GetAllFound
    \/ VtableAppendAllProperties
    \/ \E rv \in {-EINVAL, 0} : GetAllGetReturn(rv)
    \/ NodeExists
    \/ NodeExistsVtables
    \/ NextPrefix
    \/ LoopEnd
    \/ Finish

Spec == Init /\ [][Next]_vars

----------------------------------------------------------------------------
(* The dispatch of the standard-interface calls and of a method call whose *)
(* arguments do not fit, on registrations made before the dispatch; the    *)
(* user callbacks make no API call                                         *)

\* the interface names Properties.GetAll is called with: the four reserved
\* ones, an interface with registered vtables, one without
GetAllInterfaces == Reserved \cup {"I", "J"}

\* the method calls dispatched: I.M() and I.M(s), Properties.Get(I, P),
\* Properties.Get(I, Q), Properties.Set(I, P, v), Properties.Set(I, Q, v) and
\* Properties.GetAll at /a for each name and at /a/b for I
CallsMessages ==
    { Message(PA, "I", "M", <<>>, "", ""),
      Message(PA, "I", "M", <<"s">>, "", ""),
      Message(PA, IfProperties, "Get", <<"s", "s">>, "I", "P"),
      Message(PA, IfProperties, "Get", <<"s", "s">>, "I", "Q"),
      Message(PA, IfProperties, "Set", <<"s", "s", "v">>, "I", "P"),
      Message(PA, IfProperties, "Set", <<"s", "s", "v">>, "I", "Q"),
      Message(PAB, IfProperties, "GetAll", <<"s">>, "I", "") }
    \cup { Message(PA, IfProperties, "GetAll", <<"s">>, i, "") : i \in GetAllInterfaces }

\* vtM, vtQ or vtU at /a, vtM as fallback at /, a node callback and the
\* object-manager marker at /a
CallsNext ==
    \/ pc = "idle" /\ AddObject(PA, FALSE, "cb", "u")
    \/ pc = "idle" /\ \E v \in {"vtM", "vtQ", "vtU"} : AddObjectVtable(PA, "I", v, "u")
    \/ pc = "idle" /\ \E fn \in Finds : AddFallbackVtable(Root, "I", "vtM", fn, "u")
    \/ pc = "idle" /\ AddObjectManager(PA)
    \/ \E m \in CallsMessages : StartDispatch(m)
    \/ Attempt
    \/ FindAndRun
    \/ NodeCallbacksRun
    \/ \E rv \in Returns : CallbackReturn(rv)
    \/ MethodLookup
    \/ \E peer \in Senders : MethodCallbacksRun(peer)
    \/ \E rv \in Returns : FindReturn(rv)
    \/ MethodFound
    \/ \E rv \in Returns : MethodReturn(rv)
    \/ AfterMethod
    \/ PropertyLookup
    \/ PropertyGetSetCallbacksRun
    \/ \E peer \in Senders : PropertyFound(peer)
    \/ \E rv \in {-EINVAL, 0} : GetReturn(rv)
    \/ \E rv \in {-EINVAL, 0} : SetReturn(rv)
    \/ GetAllCallbacksRun
    \/ GetAllFound
    \/ VtableAppendAllProperties
    \/ \E rv \in {-EINVAL, 0} : GetAllGetReturn(rv)
    \/ NodeExists
    \/ NodeExistsVtables
    \/ NextPrefix
    \/ LoopEnd
    \/ Finish

SpecCalls == Init /\ [][CallsNext]_vars

----------------------------------------------------------------------------
(* check_access alone: the bus, the member, the START entry of its vtable  *)
(* and the sender are drawn in the initial state, one step applies it      *)

\* the capability fields of the member entries: inherit, CAP_NET_ADMIN + 1, and
\* a value whose only set bit lies above the 16 bits of the field
MemberTags == {0, CAP_NET_ADMIN + 1, 65536}

StartTags == {0, CAP_KILL + 1}

InitAccess ==
    /\ bus \in {Bus0(t, k) : t \in BOOLEAN, k \in BOOLEAN}
    /\ pc = "idle"
    /\ msg = NoMsg
    /\ fr = Frame0
    /\ obs = Obs0
    /\ ret = 0
    /\ cbops = 0
    /\ out = NoSignal
    /\ \E peer \in Peers, tag \in MemberTags, st \in StartTags,
          flags \in {{}, {"UNPRIVILEGED"}} :
          access = [checked |-> FALSE, peer |-> peer,
                    v |-> Entry("METHOD", "M", <<"s">>, <<>>, TRUE, FALSE, FALSE, flags, tag),
                    start |-> Start({}, st),
                    res |-> Access(0, "", {}, NoCap)]

CheckAccess ==
    /\ ~access.checked
    /\ access' = [access EXCEPT !.checked = TRUE,
                                !.res = check_access(bus, access.peer, access.v, access.start)]
    /\ UNCHANGED <<bus, pc, msg, fr, obs, ret, cbops, out>>

SpecAccess == InitAccess /\ [][CheckAccess]_vars

----------------------------------------------------------------------------
(* Properties of the access check *)

\* the capability a member requires, as the specification words it: the
\* member's 16-bit tag minus 1 when non-zero, else the START entry's tag minus 1
\* when non-zero, else CAP_SYS_ADMIN
RequiredCapability(v, start) ==
    IF v.cap % 65536 # 0 THEN (v.cap % 65536) - 1
    ELSE IF start.cap % 65536 # 0 THEN (start.cap % 65536) - 1
    ELSE CAP_SYS_ADMIN

Granted(a) == a.res.r >= 0

HoldsCapability(a) == RequiredCapability(a.v, a.start) \in a.peer.caps

\* C8 as stated: check_access grants exactly when the bus is trusted, or the
\* member is UNPRIVILEGED, or the caller holds the required effective
\* capability, or the caller's UID equals the process UID; the required
\* capability is the member's tag minus 1, else the START tag minus 1, else
\* CAP_SYS_ADMIN.  (Read for the senders whose credentials can be queried.)
C8_GrantsExactlyAsStated ==
    (access.checked /\ access.peer.ok) =>
        /\ Granted(access) <=> \/ bus.trusted
                               \/ "UNPRIVILEGED" \in access.v.flags
                               \/ HoldsCapability(access)
                               \/ access.peer.uid = "self"
        /\ access.res.mask # {} /\ access.peer.ok
               => access.res.cap = RequiredCapability(access.v, access.start)

\* C8, amended: check_access grants exactly when the bus is trusted, or the
\* member is UNPRIVILEGED, or the sender's credentials can be queried and
\* either the bus is kernel-mediated and the caller holds the required
\* effective capability or the caller's UID equals the process UID; the
\* required capability is computed as stated.
C8_GrantsExactly ==
    access.checked =>
        /\ Granted(access) <=> \/ bus.trusted
                               \/ "UNPRIVILEGED" \in access.v.flags
                               \/ /\ access.peer.ok
                                  /\ \/ bus.is_kernel /\ HoldsCapability(access)
                                     \/ access.peer.uid = "self"
        /\ access.res.mask # {} /\ access.peer.ok
               => access.res.cap = RequiredCapability(access.v, access.start)

\* a kernel-mediated bus grants a foreign UID through the START entry's capability
C8_Witness ==
    /\ access.checked
    /\ ~bus.trusted /\ bus.is_kernel
    /\ "UNPRIVILEGED" \notin access.v.flags
    /\ access.peer.ok /\ access.peer.uid = "other"
    /\ access.v.cap = 65536 /\ access.start.cap = CAP_KILL + 1
    /\ access.peer.caps = {CAP_KILL}
    /\ access.res.r = 1

\* C9: on a bus that is not kernel-mediated only the UID is requested, two
\* callers that differ only in their effective capabilities get the same
\* decision, and no grant rests on a capability.
C9_CapabilitiesIgnoredOffKernel ==
    (access.checked /\ ~bus.is_kernel) =>
        /\ access.res.mask \subseteq {"UID"}
        /\ \A caps \in CapSets :
               Granted([access EXCEPT !.res = check_access(bus, [access.peer EXCEPT !.caps = caps],
                                                           access.v, access.start)])
                   <=> Granted(access)
        /\ Granted(access) => \/ bus.trusted
                              \/ "UNPRIVILEGED" \in access.v.flags
                              \/ access.peer.uid = "self"

\* a foreign caller holding the required capability is denied off the kernel bus
C9_Witness ==
    /\ access.checked
    /\ ~bus.trusted /\ ~bus.is_kernel
    /\ "UNPRIVILEGED" \notin access.v.flags
    /\ access.peer.ok /\ access.peer.uid = "other"
    /\ HoldsCapability(access)
    /\ access.res.mask = {"UID"}
    /\ ~Granted(access)

----------------------------------------------------------------------------
(* Properties of the node store and the member indices *)

\* the registered vtables, each with the path of its node
RegisteredVtables ==
    UNION {{<<q, c>> : c \in Range(bus.nodes[q].vtables)} : q \in DOMAIN bus.nodes}

\* the index entries of one registered vtable are there and point back to it
IndexedVtable(q, c) ==
    \A k \in 2..Len(sd_bus_vtable(c.vtable)) :
        LET v == sd_bus_vtable(c.vtable)[k]
            key == <<q, c.interface, v.member>>
            index == IF v.type = "METHOD" THEN bus.vtable_methods ELSE bus.vtable_properties
        IN  v.type \in {"METHOD", "PROPERTY", "WRITABLE_PROPERTY"} =>
                /\ key \in DOMAIN index
                /\ index[key].parent.id = c.id
                /\ index[key].v = k

\* an index entry belongs to a registered vtable and is keyed by its member
OwnedEntry(index, key, types) ==
    \E rv \in RegisteredVtables :
        /\ rv[2].id = index[key].parent.id
        /\ index[key].v \in 2..Len(sd_bus_vtable(rv[2].vtable))
        /\ sd_bus_vtable(rv[2].vtable)[index[key].v].type \in types
        /\ key = <<rv[1], rv[2].interface, sd_bus_vtable(rv[2].vtable)[index[key].v].member>>

\* C4: the method index and the property index hold exactly one entry keyed
\* (node path, interface, member) for every METHOD and every PROPERTY or
\* WRITABLE_PROPERTY entry of every registered vtable, pointing back to that
\* vtable, and no entry of a vtable that is not registered.
C4_IndicesMatchVtables ==
    /\ \A rv \in RegisteredVtables : IndexedVtable(rv[1], rv[2])
    /\ \A key \in DOMAIN bus.vtable_methods : OwnedEntry(bus.vtable_methods, key, {"METHOD"})
    /\ \A key \in DOMAIN bus.vtable_properties :
           OwnedEntry(bus.vtable_properties, key, {"PROPERTY", "WRITABLE_PROPERTY"})

NodeIsEmpty(n) ==
    /\ n.callbacks = <<>>
    /\ n.vtables = <<>>
    /\ n.enumerators = <<>>
    /\ ~n.object_manager
    /\ n.child = <<>>

\* C5: after any sequence of successful or failed add and remove calls every
\* node of the store has a callback, a vtable, an enumerator, the
\* object_manager flag or a child; no child list names a node that left the
\* store, and every index key names a node of the store.
C5_NoEmptyNode ==
    /\ \A q \in DOMAIN bus.nodes : ~NodeIsEmpty(bus.nodes[q])
    /\ \A q \in DOMAIN bus.nodes : \A k \in Range(bus.nodes[q].child) : k \in DOMAIN bus.nodes
    /\ \A key \in DOMAIN bus.vtable_methods \cup DOMAIN bus.vtable_properties :
           key[1] \in DOMAIN bus.nodes

\* a removal emptied a node below "/" and the store was collected up to the root
C5_Witness ==
    /\ ret = 1
    /\ bus.nodes_modified
    /\ DOMAIN bus.nodes = {}

\* the path with its last segment removed
ParentPath(q) ==
    LET cut == CHOOSE i \in 1..Len(q) : q[i] = "/" /\ \A j \in (i + 1)..Len(q) : q[j] # "/"
    IN  IF cut = 1 THEN Root ELSE SubSeq(q, 1, cut - 1)

\* C6: after a registration at a path other than "/" the store holds the node
\* of every ancestor, the parent of a node is the node of its path with the
\* last segment removed, and every node is in the child list of exactly that
\* parent.
C6_ParentIsLastSegmentRemoved ==
    \A q \in DOMAIN bus.nodes \ {Root} :
        /\ ParentPath(q) \in DOMAIN bus.nodes
        /\ bus.nodes[q].parent = ParentPath(q)
        /\ \A o \in DOMAIN bus.nodes : (q \in Range(bus.nodes[o].child)) <=> (o = ParentPath(q))

----------------------------------------------------------------------------
(* Properties of the dispatch *)

\* C1: once a callback has registered or removed something and returned 0, the
\* engine visits nothing further in the running attempt - no lookup of a
\* further path, no call of a further callback - and it does not finish the
\* dispatch without a restart; the callback may also have called
\* sd_bus_emit_properties_changed_strv.
C1_ModificationRestarts ==
    /\ \A i \in 1..Len(obs.calls) : ~obs.calls[i].dirty
    /\ \A i \in 1..Len(obs.lookups) : ~obs.lookups[i].dirty
    /\ pc = "done" => ~obs.dirty

\* C2: within one call of bus_process_object no node callback, method handler
\* or property setter is invoked twice for the same handler (the same
\* callback registration, or the same path, interface and member), whatever
\* the handlers register and remove.
C2_InvokedAtMostOnce ==
    \A i, j \in 1..Len(obs.calls) :
        (/\ i < j
         /\ obs.calls[i].kind \in {"callback", "method", "set"}
         /\ obs.calls[i].kind = obs.calls[j].kind)
            => obs.calls[i].who # obs.calls[j].who

\* the paths looked up for a call to the path of the message, in order
LookupOrder ==
    CASE msg.path = PAB -> <<PAB, PA, Root>>
      [] msg.path = PA -> <<PA, Root>>
      [] OTHER -> <<msg.path>>

\* C3: in every attempt the exact path is looked up first, without
\* require_fallback, then the proper prefixes from the longest to the
\* shortest, with require_fallback; a lookup happens, and so a handler of a
\* fallback registration at a prefix is invoked, only after the exact-path
\* lookup and the lookups at all longer prefixes returned 0 in that attempt.
C3_ExactThenPrefixesLongestFirst ==
    pc \notin {"idle", "crashed"} =>
        /\ Len(obs.lookups) <= Len(LookupOrder)
        /\ \A i \in 1..Len(obs.lookups) :
               /\ obs.lookups[i].p = LookupOrder[i]
               /\ obs.lookups[i].require_fallback = (i > 1)
               /\ i < Len(obs.lookups) => obs.lookups[i].returned /\ obs.lookups[i].r = 0
        /\ \A k \in 1..Len(obs.calls) :
               (obs.calls[k].attempt = obs.attempt /\ obs.calls[k].p # msg.path) =>
                   /\ obs.calls[k].require_fallback
                   /\ \E i \in 2..Len(obs.lookups) :
                          /\ obs.lookups[i].p = obs.calls[k].p
                          /\ \A j \in 1..(i - 1) : obs.lookups[j].returned /\ obs.lookups[j].r = 0

\* a fallback callback at "/" runs for a call to "/a/b" after two lookups returned 0
C3_Witness ==
    /\ pc = "in_callback"
    /\ msg.path = PAB
    /\ fr.p = Root
    /\ Len(obs.lookups) = 3
    /\ obs.lookups[1].returned /\ obs.lookups[2].returned

\* the sender of the checked call is none check_access may let pass
Unauthorized(a) ==
    /\ ~bus.trusted
    /\ "UNPRIVILEGED" \notin a.v.flags
    /\ ~HoldsCapability(a)
    /\ a.peer.uid # "self"

Unhandled == pc = "done" /\ obs.ended

UnknownError ==
    IF msg.interface = IfProperties /\ msg.member \in {"Get", "Set"}
    THEN "UNKNOWN_PROPERTY" ELSE "UNKNOWN_METHOD"

\* C10 as stated: when no attempt handled the call and no handler reported
\* found_object, bus_process_object replies with UNKNOWN_METHOD, or with
\* UNKNOWN_PROPERTY for Properties.Get and Properties.Set.
C10_UnknownReplyWhenNotFound ==
    (Unhandled /\ ~fr.found_object) =>
        /\ obs.replies # <<>>
        /\ obs.replies[Len(obs.replies)] = UnknownError

\* C10, amended: when no attempt handled the call, bus_process_object replies
\* with UNKNOWN_METHOD (UNKNOWN_PROPERTY for Properties.Get and Set) and
\* returns 1 if some step reported found_object; if none did, it sends no
\* reply and returns 0.
C10_UnknownReplyIffFound ==
    Unhandled =>
        IF fr.found_object
        THEN obs.replies = <<UnknownError>> /\ fr.r = 1
        ELSE obs.replies = <<>> /\ fr.r = 0

\* a call nobody handled on an object that exists gets UNKNOWN_METHOD
C10_Witness ==
    /\ Unhandled
    /\ fr.found_object
    /\ obs.calls # <<>>
    /\ obs.replies = <<"UNKNOWN_METHOD">>

----------------------------------------------------------------------------
(* Properties of the replies of the engine                                 *)

\* the places where a non-zero r is only handed up: node_callbacks_run or
\* method_callbacks_run returned to object_find_and_run, object_find_and_run
\* returned to bus_process_object, bus_process_object returns
Returning == {"after_ncb", "after_method", "ofr_ret", "done"}

\* C11: the engine never sends a reply for a message and then restarts or goes
\* on dispatching it: once a reply of the engine is out, object_find_and_run
\* has returned non-zero and bus_process_object is returning it, so no attempt
\* is restarted after a reply and a message gets at most one engine reply
C11_ReplyEndsDispatch ==
    /\ Len(obs.replies) <= 1
    /\ obs.replies # <<>> => pc \in Returning /\ fr.r # 0

\* a registration made by a getter of GetAll, after which the attempt was
\* given up and a later attempt answered
C11_Witness ==
    /\ pc = "done"
    /\ obs.attempt > 1
    /\ Len(obs.replies) = 1
    /\ msg.member = "GetAll"

----------------------------------------------------------------------------
(* Properties of the vtable registration                                   *)

\* the arrays that keep every structural rule, and those that break one
RuleKeeping == {"vtM", "vtQ", "vtU", "vtS"}

RuleBreaking == AllVtables \ RuleKeeping

VtablesAt(b, q) == IF q \in DOMAIN b.nodes THEN b.nodes[q].vtables ELSE <<>>

\* sd_bus_add_object_vtable or sd_bus_add_fallback_vtable called in this state
AddVtable(q, i, v, fallback) ==
    add_object_vtable_internal(bus, q, i, v, fallback, NoFind, "u", NewId)

\* between b and b1 no vtable was registered and no index entry put
RegisteredNothing(b, b1) ==
    /\ \A q \in Paths : VtablesAt(b1, q) = VtablesAt(b, q)
    /\ DOMAIN b1.vtable_methods \subseteq DOMAIN b.vtable_methods
    /\ DOMAIN b1.vtable_properties \subseteq DOMAIN b.vtable_properties

\* the node at q holds no vtable of the other kind and none for interface i
NoConflict(q, i, fallback) ==
    \A k \in 1..Len(VtablesAt(bus, q)) :
        /\ VtablesAt(bus, q)[k].is_fallback = fallback
        /\ ~streq(VtablesAt(bus, q)[k].interface, i)

C13_ReservedAndDuplicate ==
    /\ \A q \in VtablePaths, v \in AllVtables, fallback \in BOOLEAN, fn \in Finds :
           \A i \in {IfProperties, IfIntrospectable, IfPeer, IfObjectManager} :
               LET res == add_object_vtable_internal(bus, q, i, v, fallback, fn, "u", NewId)
               IN  res.r = -EINVAL /\ RegisteredNothing(bus, res.bus)
    /\ \A q \in DOMAIN bus.nodes : \A k \in 1..Len(bus.nodes[q].vtables) : \A fn \in Finds :
           LET w == bus.nodes[q].vtables[k]
               res == add_object_vtable_internal(bus, q, w.interface, w.vtable, w.is_fallback,
                                                 fn, "u", NewId)
           IN  res.r = -EEXIST /\ RegisteredNothing(bus, res.bus)
    /\ -EEXIST \notin {-EINVAL, -EPROTOTYPE}

\* a vtable is registered and the last registration was refused with -EEXIST
C13_Witness ==
    /\ ret = -EEXIST
    /\ \E q \in DOMAIN bus.nodes : bus.nodes[q].vtables # <<>>

\* C14: in every reachable state all vtables registered on one node have the
\* same is_fallback flag, and adding a fallback vtable to a node that holds a
\* non-fallback vtable, or the reverse, is rejected and registers nothing; the
\* error is -EPROTOTYPE unless the array does not even begin with a START
\* entry of the right element size.
C14_OneKindPerNode ==
    /\ \A q \in DOMAIN bus.nodes : \A k, l \in 1..Len(bus.nodes[q].vtables) :
           bus.nodes[q].vtables[k].is_fallback = bus.nodes[q].vtables[l].is_fallback
    /\ \A q \in VtablePaths, i \in Interfaces, v \in AllVtables, fallback \in BOOLEAN :
           (\E k \in 1..Len(VtablesAt(bus, q)) : VtablesAt(bus, q)[k].is_fallback # fallback) =>
               /\ AddVtable(q, i, v, fallback).r < 0
               /\ v \notin {"vtNoStart", "vtElementSize"} =>
                      AddVtable(q, i, v, fallback).r = -EPROTOTYPE
               /\ RegisteredNothing(bus, AddVtable(q, i, v, fallback).bus)

\* a node holds a vtable and a registration of the other kind was refused
C14_Witness ==
    /\ ret = -EPROTOTYPE
    /\ \E q \in DOMAIN bus.nodes : Len(bus.nodes[q].vtables) = 1

----------------------------------------------------------------------------
(* Properties of nodes_modified and of the removals                        *)

ObjectManagers(b) == {q \in DOMAIN b.nodes : b.nodes[q].object_manager}

ListAt(b, q, list) == IF q \in DOMAIN b.nodes THEN b.nodes[q][list] ELSE <<>>

\* the id of the first element of the list that Match accepts, 0 for none
FirstMatch(list, Match(_)) ==
    IF \A k \in 1..Len(list) : ~Match(list[k]) THEN 0
    ELSE list[CHOOSE k \in 1..Len(list) :
                 Match(list[k]) /\ \A j \in 1..(k - 1) : ~Match(list[j])].id

\* a registration call that succeeded has set nodes_modified
SetsModified(res) == res.r = 0 => res.bus.nodes_modified

\* a removal that matched nothing (first = 0) returned 0 and changed nothing;
\* one that matched returned 1, set nodes_modified and removed the
\* registration first and nothing else
RemovesFirst(res, first) ==
    IF first = 0
    THEN res.r = 0 /\ res.bus = bus
    ELSE /\ res.r = 1
         /\ res.bus.nodes_modified
         /\ LiveIds(res.bus) = LiveIds(bus) \ {first}
         /\ ObjectManagers(res.bus) = ObjectManagers(bus)

\* C15: every successful registration (callback, fallback callback, vtable,
\* enumerator, object manager) sets nodes_modified; a removal that matches
\* nothing returns 0 and leaves node store, indices and nodes_modified as they
\* were; a matching removal returns 1, sets nodes_modified and removes exactly
\* one registration, the first match of the list.
C15_ModifiedOnChange ==
    \A q \in Paths, u \in Userdatas :
        /\ \A f \in BOOLEAN, cb \in CallbackFns :
               /\ SetsModified(bus_add_object(bus, f, q, cb, u, NewId))
               /\ LET Match(c) == c.callback = cb /\ c.userdata = u /\ c.is_fallback = f
                  IN  RemovesFirst(bus_remove_object(bus, f, q, cb, u),
                                   FirstMatch(ListAt(bus, q, "callbacks"), Match))
        /\ \A f \in BOOLEAN, i \in Interfaces, v \in Vtables, fn \in Finds :
               /\ SetsModified(add_object_vtable_internal(bus, q, i, v, f, fn, u, NewId))
               /\ LET Match(c) == /\ c.interface = i /\ c.is_fallback = f /\ c.vtable = v
                                  /\ c.find = fn /\ c.userdata = u
                  IN  RemovesFirst(remove_object_vtable_internal(bus, q, i, v, f, fn, u),
                                   FirstMatch(ListAt(bus, q, "vtables"), Match))
        /\ \A en \in EnumeratorFns :
               /\ SetsModified(sd_bus_add_node_enumerator(bus, q, en, u, NewId))
               /\ LET Match(c) == c.callback = en /\ c.userdata = u
                  IN  RemovesFirst(sd_bus_remove_node_enumerator(bus, q, en, u),
                                   FirstMatch(ListAt(bus, q, "enumerators"), Match))
        /\ SetsModified(sd_bus_add_object_manager(bus, q))
        /\ LET res == sd_bus_remove_object_manager(bus, q) IN
           IF q \notin ObjectManagers(bus)
           THEN res.r = 0 /\ res.bus = bus
           ELSE /\ res.r = 1
                /\ res.bus.nodes_modified
                /\ LiveIds(res.bus) = LiveIds(bus)
                /\ ObjectManagers(res.bus) = ObjectManagers(bus) \ {q}

\* of two equal callbacks on one node the one added last, the head of the
\* list, was removed and the one added first is left
C15_Witness ==
    /\ ret = 1
    /\ bus.nodes_modified
    /\ LiveIds(bus) = {1}
    /\ \E q \in DOMAIN bus.nodes :
           Len(bus.nodes[q].callbacks) = 1 /\ bus.nodes[q].callbacks[1].id = 1

----------------------------------------------------------------------------
(* Properties of the PropertiesChanged emitter                             *)

\* sd_bus_emit_properties_changed_strv called in this state
Emit(q, names, found) == sd_bus_emit_properties_changed_strv(bus, q, "I", names, found)

\* the vtables at p the emitter looks at for path q: those of the interface
\* that resolve, at a prefix the fallback ones only
Eligible(p, q, found) ==
    {c \in Range(VtablesAt(bus, p)) :
        /\ streq(c.interface, "I")
        /\ (p # q => c.is_fallback)
        /\ resolves(c, found)}

\* the first node, from q up through its prefixes, with such a vtable
RECURSIVE FirstServing(_, _, _)
FirstServing(ps, q, found) ==
    IF ps = <<>> THEN NoPath
    ELSE IF Eligible(Head(ps), q, found) # {} THEN Head(ps)
    ELSE FirstServing(Tail(ps), q, found)

Serving(q, found) == FirstServing(<<q>> \o object_path_prefixes(q), q, found)

\* name is a property of one of those vtables at the serving node
Served(q, name, found) ==
    /\ Serving(q, found) # NoPath
    /\ Key(Serving(q, found), "I", name) \in DOMAIN bus.vtable_properties
    /\ \E c \in Eligible(Serving(q, found), q, found) :
           c.id = bus.vtable_properties[Key(Serving(q, found), "I", name)].parent.id

FlagsOf(q, name, found) == EntryOf(bus.vtable_properties[Key(Serving(q, found), "I", name)]).flags

\* name is such a property and lacks EMITS_CHANGE
Offending(q, name, found) ==
    Served(q, name, found) /\ "EMITS_CHANGE" \notin FlagsOf(q, name, found)

Count(list, x) == Cardinality({k \in 1..Len(list) : list[k] = x})

NoRepetition(list) == \A x \in Range(list) : Count(list, x) = 1

\* every name of the list is a property of the vtable c at the serving node
\* and carries EMITS_CHANGE
AllEmitting(q, names, found, c) ==
    /\ names # <<>>
    /\ NoRepetition(names)
    /\ \A j \in 1..Len(names) :
           /\ member_name_is_valid(names[j])
           /\ Served(q, names[j], found)
           /\ bus.vtable_properties[Key(Serving(q, found), "I", names[j])].parent.id = c.id
           /\ "EMITS_CHANGE" \in FlagsOf(q, names[j], found)

\* the call sent one signal for q with every name exactly once, in the
\* invalidated array if the property is INVALIDATE_ONLY, in the changed dict
\* otherwise
Partitioned(q, names, found) ==
    LET e == Emit(q, names, found) IN
    /\ ~e.abort
    /\ e.r = 1
    /\ e.signal.path = q
    /\ e.signal.interface = "I"
    /\ Range(e.signal.changed) \cup Range(e.signal.invalidated) = Range(names)
    /\ \A j \in 1..Len(names) :
           IF "INVALIDATE_ONLY" \in FlagsOf(q, names[j], found)
           THEN Count(e.signal.invalidated, names[j]) = 1 /\ Count(e.signal.changed, names[j]) = 0
           ELSE Count(e.signal.changed, names[j]) = 1 /\ Count(e.signal.invalidated, names[j]) = 0

\* C17: for a vtable whose named properties all carry EMITS_CHANGE the call
\* sends one PropertiesChanged signal where every named property without
\* INVALIDATE_ONLY is exactly once in the changed dict and every named
\* property with INVALIDATE_ONLY exactly once in the invalidated array and not
\* in the dict.
C17_OneSignalPartitioned ==
    \A q \in EmitPaths, names \in EmitLists, found \in BOOLEAN :
        (\E c \in Eligible(Serving(q, found), q, found) : AllEmitting(q, names, found, c)) =>
            Partitioned(q, names, found)

\* the same with that vtable the only one of the interface that resolves at
\* the node
C17_AloneOnNode ==
    \A q \in EmitPaths, names \in EmitLists, found \in BOOLEAN :
        (/\ Cardinality(Eligible(Serving(q, found), q, found)) = 1
         /\ \E c \in Eligible(Serving(q, found), q, found) : AllEmitting(q, names, found, c)) =>
            Partitioned(q, names, found)

\* the nodes the emitter visits for q, in its order
Visited(q) == <<q>> \o object_path_prefixes(q)

\* name is a property of a vtable the emitter looks at at node p
OwnedAt(p, q, name, found) ==
    /\ Key(p, "I", name) \in DOMAIN bus.vtable_properties
    /\ \E c \in Eligible(p, q, found) : c.id = bus.vtable_properties[Key(p, "I", name)].parent.id

\* node p has one vtable for the interface that resolves, and every listed
\* name is a property of it that carries EMITS_CHANGE
ProducesAt(p, q, names, found) ==
    /\ Cardinality(Eligible(p, q, found)) = 1
    /\ \A j \in 1..Len(names) :
           /\ member_name_is_valid(names[j])
           /\ OwnedAt(p, q, names[j], found)
           /\ "EMITS_CHANGE" \in EntryOf(bus.vtable_properties[Key(p, "I", names[j])]).flags

\* what C18 says of every call but the meaning of -ENOENT: a signal is sent
\* exactly when the call returns 1, it is one signal for q with listed names,
\* the first node in the order exact path, prefixes longest first, that has a
\* vtable for the interface decides, and without any such vtable the call
\* returns -ENOENT
OneSignalFirstNode(q, names, found) ==
    LET e == Emit(q, names, found)
        s == Serving(q, found)
    IN  /\ (e.signal # NoSignal) <=> (e.r = 1)
        /\ e.signal # NoSignal =>
               /\ e.signal.path = q
               /\ Range(e.signal.changed) \cup Range(e.signal.invalidated) \subseteq Range(names)
               /\ Range(e.signal.changed) \cup Range(e.signal.invalidated) # {}
        /\ s = NoPath => e.r = -ENOENT
        /\ (s # NoPath /\ ProducesAt(s, q, names, found)) => e.r = 1

----------------------------------------------------------------------------
(* Properties of the InterfacesAdded emitter                               *)

\* a vtable of the interface resolves for q: any vtable at q itself, a
\* fallback vtable at a prefix
ResolvesFor(q, interface, found) ==
    \E k \in 1..Len(Visited(q)) : \E c \in Range(VtablesAt(bus, Visited(q)[k])) :
        /\ streq(c.interface, interface)
        /\ (k > 1 => c.is_fallback)
        /\ resolves(c, found)

----------------------------------------------------------------------------
(* Properties of GetManagedObjects *)

\* the nodes registered strictly below P
Below(P) == {q \in DOMAIN bus.nodes : q # P /\ object_path_startswith(q, P)}

\* some vtable resolves for q: any vtable at q or a fallback vtable at a prefix
HasResolving(q, found) == \E i \in {"I", "J"} : ResolvesFor(q, i, found)

\* the interfaces of the vtables that resolve for q
ResolvingInterfaces(q, found) == {i \in {"I", "J"} : ResolvesFor(q, i, found)}

\* the positions of the entries of the dict for path q
EntriesFor(objects, q) == {k \in 1..Len(objects) : objects[k].path = q}

\* the interfaces the entries for q list
ListedInterfaces(objects, q) ==
    UNION {{objects[k].interfaces[j].interface : j \in 1..Len(objects[k].interfaces)} :
               k \in EntriesFor(objects, q)}

\* C20: GetManagedObjects addressed to a node P that has object_manager replies
\* with a dict that holds one entry for every path registered strictly below P
\* that has a resolving vtable, the entry built from the vtables at that path
\* and the fallback vtables at its prefixes.
C20_EntryForEveryPathBelow ==
    \A P \in {Root, PA}, found \in BOOLEAN, opened \in {0, 1}, enumerated \in {{}, {PAB}} :
        (P \in DOMAIN bus.nodes /\ bus.nodes[P].object_manager) =>
            \A q \in Below(P) :
                HasResolving(q, found) =>
                    LET e == get_managed_objects(bus, P, found, opened, enumerated) IN
                    /\ e.r = 1
                    /\ e.reply.member = "GetManagedObjects"
                    /\ Cardinality(EntriesFor(e.reply.objects, q)) = 1
                    /\ ListedInterfaces(e.reply.objects, q) = ResolvingInterfaces(q, found)

\* What the code does for the root, the one node that has children: a dict
\* with at least one entry for every node below that has a resolving vtable,
\* the entries of a path together listing the interfaces that resolve for it,
\* and no entry for another path.
C20_AtRoot ==
    \A found \in BOOLEAN, opened \in {0, 1}, enumerated \in {{}, {PAB}} :
        (Root \in DOMAIN bus.nodes /\ bus.nodes[Root].object_manager) =>
            LET e == get_managed_objects(bus, Root, found, opened, enumerated) IN
            /\ \A q \in Below(Root) :
                   HasResolving(q, found) =>
                       /\ e.r = 1
                       /\ e.reply.member = "GetManagedObjects"
                       /\ EntriesFor(e.reply.objects, q) # {}
                       /\ ListedInterfaces(e.reply.objects, q) = ResolvingInterfaces(q, found)
            /\ e.reply.member = "GetManagedObjects" =>
                   \A k \in 1..Len(e.reply.objects) :
                       /\ HasResolving(e.reply.objects[k].path, found)
                       /\ \/ e.reply.objects[k].path \in Below(Root)
                          \/ /\ e.reply.objects[k].path \in enumerated
                             /\ \E q \in DOMAIN bus.nodes : bus.nodes[q].enumerators # <<>>

\* What the code does for any other node: its child list is empty, so
\* no dict entry is ever produced for a call addressed to /a that /a answers.
C20_NoChildrenBelowRoot ==
    \A q \in DOMAIN bus.nodes : q # Root => bus.nodes[q].child = <<>>

----------------------------------------------------------------------------
(* C21: Introspect on a path at which nothing exists, and on an existing   *)
(* node                                                                    *)

IntrospectPaths == Paths
IntrospectEnumerated == {{}, {PAB}}

\* the vtables the lookup for P can use: any vtable at P, fallback vtables at
\* the prefixes of P, those whose resolver answers found
ResolvingVtables(P, found) ==
    UNION {{c \in Range(VtablesAt(bus, Visited(P)[k])) :
                (k > 1 => c.is_fallback) /\ resolves(c, found)} :
           k \in 1..Len(Visited(P))}

\* nothing exists at P: no node strictly below P, no enumerator that reports P
\* or a path below it, no resolving vtable, no callback on the way, and
\* neither an enumerator nor the object-manager marker at P
NothingExistsAt(P, found, enumerated) ==
    /\ \A q \in DOMAIN bus.nodes : q # P => ~object_path_startswith(q, P)
    /\ \A q \in DOMAIN bus.nodes :
           bus.nodes[q].enumerators # <<>> =>
               \A k \in enumerated : ~object_path_startswith(k, P)
    /\ ResolvingVtables(P, found) = {}
    /\ \A k \in 1..Len(Visited(P)) :
           Visited(P)[k] \in DOMAIN bus.nodes =>
               \A c \in Range(bus.nodes[Visited(P)[k]].callbacks) : k > 1 /\ ~c.is_fallback
    /\ P \in DOMAIN bus.nodes =>
           bus.nodes[P].enumerators = <<>> /\ ~bus.nodes[P].object_manager

\* C21: an Introspect call addressed to a path at which nothing exists sends
\* no reply, leaves found_object false and makes bus_process_object return 0.
C21_NothingExistsNoReply ==
    \A P \in IntrospectPaths, found \in BOOLEAN, enumerated \in IntrospectEnumerated :
        NothingExistsAt(P, found, enumerated) =>
            LET e == introspect(bus, P, found, enumerated) IN
            /\ e.r = 0
            /\ e.reply = NoIntrospection
            /\ ~e.found_object

\* What the code does when no node is registered at P either: no reply, 0.
C21_AbsentNodeNoReply ==
    \A P \in IntrospectPaths, found \in BOOLEAN, enumerated \in IntrospectEnumerated :
        (NothingExistsAt(P, found, enumerated) /\ P \notin DOMAIN bus.nodes) =>
            LET e == introspect(bus, P, found, enumerated) IN
            /\ e.r = 0
            /\ e.reply = NoIntrospection
            /\ ~e.found_object

\* What the code does on a node P that has a resolving vtable, an enumerator
\* or the object-manager marker: it sends a reply that names the interface of
\* every resolving vtable of P that is not hidden, and of no other vtable.
C21_ExistingNodeReply ==
    \A P \in IntrospectPaths, found \in BOOLEAN, enumerated \in IntrospectEnumerated :
        (/\ P \in DOMAIN bus.nodes
         /\ \/ \E c \in Range(bus.nodes[P].vtables) : resolves(c, found)
            \/ bus.nodes[P].enumerators # <<>>
            \/ bus.nodes[P].object_manager) =>
            LET e == introspect(bus, P, found, enumerated) IN
            /\ e.r = 1
            /\ e.reply.member = "Introspect"
            /\ e.reply.path = P
            /\ Range(e.reply.interfaces) =
                   {c.interface : c \in {d \in Range(bus.nodes[P].vtables) :
                        resolves(d, found) /\ "HIDDEN" \notin sd_bus_vtable(d.vtable)[1].flags}}

----------------------------------------------------------------------------
(* C22: Properties.GetAll for an interface name that matches no vtable     *)

\* the GetAll handler has answered the call at the node fr.p, and no vtable
\* of that node is registered for the interface asked for
GetAllAnsweredUnmatched ==
    /\ pc = "ofr_ret"
    /\ msg.member = "GetAll"
    /\ msg.arg_interface # ""
    /\ obs.replies # <<>>
    /\ obs.replies[Len(obs.replies)] \in {"METHOD_RETURN", "UNKNOWN_INTERFACE"}
    /\ \A c \in Range(VtablesAt(bus, fr.p)) : ~streq(c.interface, msg.arg_interface)

\* C22: Properties.GetAll with a non-empty interface name that matches no
\* vtable on the node is answered with UNKNOWN_INTERFACE if and only if the
\* name is none of the four standard interfaces Properties, Introspectable,
\* Peer and ObjectManager.
C22_UnknownInterfaceIffNotStandard ==
    GetAllAnsweredUnmatched =>
        (obs.replies = <<"UNKNOWN_INTERFACE">>
            <=> msg.arg_interface \notin {IfProperties, IfIntrospectable, IfPeer,
                                          IfObjectManager})

\* What the code does: the names it answers with an empty dict are three,
\* ObjectManager is not among them, also on a node that carries the marker.
C22_ThreeStandard ==
    GetAllAnsweredUnmatched =>
        /\ obs.replies \in {<<"UNKNOWN_INTERFACE">>, <<"METHOD_RETURN">>}
        /\ obs.replies = <<"UNKNOWN_INTERFACE">>
               <=> msg.arg_interface \notin {IfProperties, IfIntrospectable, IfPeer}
        /\ fr.reply = <<>>

\* GetAll for ObjectManager answered with UNKNOWN_INTERFACE by a node that
\* carries the object-manager marker
C22_ObjectManagerUnknown ==
    /\ GetAllAnsweredUnmatched
    /\ streq(msg.arg_interface, IfObjectManager)
    /\ fr.p \in DOMAIN bus.nodes
    /\ bus.nodes[fr.p].object_manager
    /\ obs.replies = <<"UNKNOWN_INTERFACE">>

----------------------------------------------------------------------------
(* C23: Properties.Set on a read-only property                             *)

\* the property index entry the message asks for at its own path
AskedKey == Key(msg.path, msg.arg_interface, msg.arg_member)

\* a Properties.Set call is dispatched for a property registered as PROPERTY
ReadOnlySet ==
    /\ pc # "idle"
    /\ streq(msg.interface, IfProperties)
    /\ msg.member = "Set"
    /\ AskedKey \in DOMAIN bus.vtable_properties
    /\ EntryOf(bus.vtable_properties[AskedKey]).type = "PROPERTY"

\* C23: Properties.Set on a property registered as read-only PROPERTY is
\* answered with PROPERTY_READ_ONLY; the access check is not run, no setter is
\* called and nothing of the registration is written.
C23_ReadOnlySetRefused ==
    ReadOnlySet =>
        /\ ~access.checked
        /\ \A k \in 1..Len(obs.calls) : obs.calls[k].kind # "set"
        /\ bus.vtable_properties[AskedKey].last_iteration # bus.iteration_counter
        /\ (pc \in {"ofr_ret", "done"} /\ fr.key = AskedKey) =>
               fr.r = 1 /\ obs.replies = <<"PROPERTY_READ_ONLY">>

\* the dispatch of Set(I, Q) for the read-only Q of vtQ has ended with the
\* answer of the property handler
C23_Witness ==
    /\ ReadOnlySet
    /\ pc = "done"
    /\ fr.key = AskedKey
    /\ obs.replies = <<"PROPERTY_READ_ONLY">>

----------------------------------------------------------------------------
(* C24: Properties.Get and Properties.GetAll are open to every caller      *)

\* a Properties.Get or Properties.GetAll call is being dispatched
ReadCall ==
    /\ pc # "idle"
    /\ streq(msg.interface, IfProperties)
    /\ msg.member \in {"Get", "GetAll"}

\* C24: Properties.Get and Properties.GetAll return property values to any
\* caller: no credential query is made and no access check is run, whatever
\* the trusted flag of the bus, the UID and capabilities of the caller and the
\* capability tag and UNPRIVILEGED flag of the member are, so the reply does
\* not depend on them: it is never an access error, and once the property
\* handler answered it is the method return or the error of a user callback.
C24_ReadsUnchecked ==
    ReadCall =>
        /\ ~access.checked
        /\ \A k \in 1..Len(obs.replies) : obs.replies[k] # "ACCESS_DENIED"
        /\ (pc = "done" /\ fr.r # 0 /\ obs.replies # <<>>) =>
               obs.replies \in {<<"METHOD_RETURN">>, <<"errno">>, <<"UNKNOWN_INTERFACE">>,
                                <<"UNKNOWN_PROPERTY">>, <<"UNKNOWN_METHOD">>}

\* Get(I, P) answered with a method return on a bus that is not trusted, for the
\* property P of vtM, which is not UNPRIVILEGED and whose Set is refused to
\* callers without CAP_SYS_ADMIN
C24_Witness ==
    /\ ReadCall
    /\ msg.member = "Get"
    /\ pc = "done"
    /\ ~bus.trusted
    /\ fr.key = AskedKey
    /\ AskedKey \in DOMAIN bus.vtable_properties
    /\ "UNPRIVILEGED" \notin EntryOf(bus.vtable_properties[AskedKey]).flags
    /\ \E k \in 1..Len(obs.calls) : obs.calls[k].kind = "get"
    /\ obs.replies = <<"METHOD_RETURN">>

----------------------------------------------------------------------------
(* C25: a method call whose arguments do not fit the vtable entry          *)

\* method_callbacks_run has run for a method whose input signature is not the
\* signature of the message, and the access check let the caller pass
MismatchAnswered ==
    /\ pc = "after_method"
    /\ fr.key \in DOMAIN bus.vtable_methods
    /\ EntryOf(bus.vtable_methods[fr.key]).signature # msg.signature
    /\ access.checked
    /\ access.res.r >= 0

----------------------------------------------------------------------------
(* C26: a method call served by a fallback vtable with a find resolver     *)

\* the k-th user callback called is a method handler of a fallback vtable at a
\* prefix, called right after the find resolver of that vtable
ResolvedHandlerCall(k) ==
    /\ k > 1
    /\ obs.calls[k].kind = "method"
    /\ obs.calls[k].require_fallback
    /\ obs.calls[k - 1].kind = "find"
    /\ obs.calls[k - 1].p = obs.calls[k].p
    /\ obs.calls[k - 1].attempt = obs.calls[k].attempt

\* every method handler called from a prefix Q of the message path P gets the
\* message path; one called after a find resolver gets the userdata the
\* resolver stored, the resolver was asked with P as well, at the node Q, and
\* the handler is called at most once in the dispatch
C26_HandlerInv ==
    \A k \in 1..Len(obs.calls) :
        (obs.calls[k].kind = "method" /\ obs.calls[k].require_fallback) =>
            /\ obs.calls[k].path = msg.path
            /\ obs.calls[k].p # msg.path
            /\ \E i \in 1..Len(object_path_prefixes(msg.path)) :
                   object_path_prefixes(msg.path)[i] = obs.calls[k].p
            /\ \A j \in 1..Len(obs.calls) :
                   (obs.calls[j].kind = "method" /\ obs.calls[j].who = obs.calls[k].who) => j = k
            /\ ResolvedHandlerCall(k) =>
                   /\ obs.calls[k].userdata = FoundUserdata
                   /\ obs.calls[k - 1].path = msg.path
                   /\ obs.calls[k - 1].require_fallback

\* a find resolver that reports not-found to method_callbacks_run: the
\* handler is not called, nothing is replied, the node returns 0
C26_NotFoundStep ==
    (pc = "in_find" /\ fr.cont = "method" /\ FindReturn(0)) =>
        /\ pc' = "after_method"
        /\ fr'.r = 0
        /\ obs'.calls = obs.calls
        /\ obs'.replies = obs.replies

\* C26: for a call to a path P with no node at P that a fallback vtable at a
\* prefix Q of P serves, the find resolver is called with the message path P,
\* not Q, and the method handler is invoked once, with the userdata the
\* resolver returned; when the resolver reports not-found the handler is not
\* invoked.
C26_FallbackFind == []C26_HandlerInv /\ [][C26_NotFoundStep]_vars

\* I.M(s) sent to /a/b, where no node is, runs the handler of the fallback
\* vtable at / with the userdata its resolver returned
C26_Witness ==
    /\ pc = "in_method"
    /\ msg.path = PAB
    /\ PAB \notin DOMAIN bus.nodes
    /\ ResolvedHandlerCall(Len(obs.calls))
    /\ obs.calls[Len(obs.calls)].p = Root
    /\ obs.calls[Len(obs.calls)].userdata = FoundUserdata
    /\ obs.calls[Len(obs.calls) - 1].path = PAB

----------------------------------------------------------------------------
(* C27: a failed vtable registration                                       *)

\* C27: an add_object_vtable or add_fallback_vtable call that fails, for a
\* validation error, fallback mixing, a duplicate pointer or a member name
\* that collides with an entry of a registered vtable of the same interface on
\* the node, leaves the node store, the registrations, the index entries of
\* every other vtable and nodes_modified exactly as they were before the call.
C27_FailedAddChangesNothing ==
    \A q \in VtablePaths, i \in VtableInterfaces, v \in AllVtables, fallback \in BOOLEAN :
        LET e == AddVtable(q, i, v, fallback) IN
        e.r < 0 => e.bus = bus

\* What the code does: a call that fails after the node was allocated, in
\* hashmap_put or at an entry that breaks a rule, removes the index entries of
\* the members that the new array shares with the registered vtables of the
\* interface on the node and nothing else; the node store, the vtable lists and
\* nodes_modified stay as they were.
C27_OnlyCollidingEntriesLost ==
    \A q \in VtablePaths, i \in VtableInterfaces, v \in AllVtables, fallback \in BOOLEAN :
        LET e == AddVtable(q, i, v, fallback) IN
        e.r < 0 =>
            /\ e.bus.nodes = bus.nodes
            /\ e.bus.nodes_modified = bus.nodes_modified
            /\ DOMAIN e.bus.vtable_methods \subseteq DOMAIN bus.vtable_methods
            /\ DOMAIN e.bus.vtable_properties \subseteq DOMAIN bus.vtable_properties
            /\ \A key \in (DOMAIN bus.vtable_methods \ DOMAIN e.bus.vtable_methods)
                          \cup (DOMAIN bus.vtable_properties \ DOMAIN e.bus.vtable_properties) :
                   /\ key[1] = q
                   /\ key[2] = i
                   /\ \E k \in 2..Len(sd_bus_vtable(v)) : sd_bus_vtable(v)[k].member = key[3]
            /\ \A key \in DOMAIN e.bus.vtable_methods :
                   e.bus.vtable_methods[key] = bus.vtable_methods[key]
            /\ \A key \in DOMAIN e.bus.vtable_properties :
                   e.bus.vtable_properties[key] = bus.vtable_properties[key]

----------------------------------------------------------------------------
(* C28: PropertiesChanged with several vtables of the interface on a node  *)

\* the serving node has two or more resolving vtables of the interface, and
\* every listed name is an EMITS_CHANGE property of one of them
SpreadOverVtables(q, names, found) ==
    /\ Serving(q, found) # NoPath
    /\ Cardinality(Eligible(Serving(q, found), q, found)) >= 2
    /\ names # <<>>
    /\ NoRepetition(names)
    /\ \A j \in 1..Len(names) :
           /\ member_name_is_valid(names[j])
           /\ OwnedAt(Serving(q, found), q, names[j], found)
           /\ "EMITS_CHANGE" \in FlagsOf(q, names[j], found)

\* C28: with two or more vtables for the same interface registered on one
\* node, sd_bus_emit_properties_changed_strv for names of those vtables
\* completes without an assertion failure and lists each named property
\* exactly once, in the changed dict or in the invalidated array; the
\* assertion c == v->parent of the invalidation pass never fails.
C28_NoAssertionFailure ==
    \A q \in EmitPaths, names \in EmitLists, found \in BOOLEAN :
        SpreadOverVtables(q, names, found) =>
            /\ ~Emit(q, names, found).abort
            /\ Partitioned(q, names, found)

\* What the code does: the call completes and lists every name once as long
\* as no named property is INVALIDATE_ONLY, and aborts in the invalidation
\* pass as soon as one is.
C28_AbortsWhenInvalidating ==
    \A q \in EmitPaths, names \in EmitLists, found \in BOOLEAN :
        SpreadOverVtables(q, names, found) =>
            IF \E j \in 1..Len(names) : "INVALIDATE_ONLY" \in FlagsOf(q, names[j], found)
            THEN Emit(q, names, found).abort
            ELSE ~Emit(q, names, found).abort /\ Partitioned(q, names, found)

----------------------------------------------------------------------------
(* C29: the answer to Properties.Set after the setter succeeded            *)

\* the dispatch of a Properties.Set call has ended, a setter was called in it
\* and no user callback of the dispatch reported a failure, which is answered
\* with the error of its errno: every setter called returned success
SetterSucceeded ==
    /\ pc = "done"
    /\ streq(msg.interface, IfProperties)
    /\ msg.member = "Set"
    /\ \E k \in 1..Len(obs.calls) : obs.calls[k].kind = "set"
    /\ \A k \in 1..Len(obs.replies) : obs.replies[k] # "errno"

\* C29: a Properties.Set call on a writable property by an authorized caller
\* whose setter was invoked and returned success is answered with a method
\* return and never with an error reply, also when the setter or the find
\* resolver registers or removes objects during the call.
C29_SetAnswered ==
    SetterSucceeded => obs.replies = <<"METHOD_RETURN">>

\* What the code does: the method return is sent when the dispatch was not
\* restarted. When the setter changed the nodes and returned success, the
\* attempt is abandoned without a reply and the restarted attempt skips the
\* setter: the call gets the answer of that attempt, or none.
C29_AnsweredUnlessModified ==
    SetterSucceeded =>
        /\ Len(obs.replies) <= 1
        /\ obs.attempt = 1 => obs.replies = <<"METHOD_RETURN">>
        /\ obs.replies = <<"METHOD_RETURN">> =>
               \E k \in 1..Len(obs.calls) :
                   obs.calls[k].kind = "set" /\ obs.calls[k].attempt = obs.attempt

----------------------------------------------------------------------------
(* C30: Properties.GetAll with the vtable at the path or at a prefix       *)

\* the vtables of interface I that resolve for path P without a resolver: those
\* registered at P, and the fallback ones registered at a prefix of P
ResolvingFor(P) ==
    {c \in Range(VtablesAt(bus, P)) : streq(c.interface, "I") /\ c.find = NoFind}
        \cup UNION {{c \in Range(VtablesAt(bus, object_path_prefixes(P)[j])) :
                        streq(c.interface, "I") /\ c.is_fallback /\ c.find = NoFind} :
                    j \in 1..Len(object_path_prefixes(P))}

\* the properties GetAll lists for a vtable
ListedProperties(c) ==
    {sd_bus_vtable(c.vtable)[k].member : k \in
        {k \in 2..Len(sd_bus_vtable(c.vtable)) :
            /\ IsProperty(sd_bus_vtable(c.vtable)[k])
            /\ "HIDDEN" \notin sd_bus_vtable(c.vtable)[k].flags}}

\* the dispatch of GetAll(I) has ended with an answer that is not the failure
\* of a user callback, and a vtable for I resolves for the path of the message
GetAllResolved ==
    /\ pc = "done"
    /\ streq(msg.interface, IfProperties)
    /\ msg.member = "GetAll"
    /\ msg.arg_interface = "I"
    /\ ResolvingFor(msg.path) # {}
    /\ obs.replies # <<>>
    /\ obs.replies # <<"errno">>

\* the first path among P and its prefixes that has a node
FirstNode(ps) ==
    IF \E j \in 1..Len(ps) : ps[j] \in DOMAIN bus.nodes
    THEN ps[CHOOSE j \in 1..Len(ps) :
                /\ ps[j] \in DOMAIN bus.nodes
                /\ \A h \in 1..(j - 1) : ps[h] \notin DOMAIN bus.nodes]
    ELSE NoPath

\* C30: Properties.GetAll for interface I on path P returns I's properties
\* whenever a vtable for I resolves for P, registered at P or as a fallback at
\* a prefix of P, also when a node exists at P that carries other
\* registrations (callbacks, enumerators, vtables of other interfaces).
C30_GetAllReturnsProperties ==
    GetAllResolved =>
        /\ obs.replies = <<"METHOD_RETURN">>
        /\ \E c \in ResolvingFor(msg.path) : ListedProperties(c) \subseteq Range(fr.reply)

\* What the code does: the first node found along P and its prefixes answers.
\* The properties are returned when that node has a vtable for I that the pass
\* accepts; any other node there answers UNKNOWN_INTERFACE and the fallback
\* vtables at the prefixes above it are not asked.
C30_FirstNodeAnswers ==
    GetAllResolved =>
        LET n == FirstNode(<<msg.path>> \o object_path_prefixes(msg.path)) IN
        /\ n # NoPath
        /\ fr.p = n
        /\ IF \E c \in ResolvingFor(msg.path) :
                  /\ c \in Range(VtablesAt(bus, n))
                  /\ (n # msg.path => c.is_fallback)
           THEN /\ obs.replies = <<"METHOD_RETURN">>
                /\ \E c \in ResolvingFor(msg.path) : ListedProperties(c) \subseteq Range(fr.reply)
           ELSE obs.replies = <<"UNKNOWN_INTERFACE">> /\ fr.reply = <<>>

----------------------------------------------------------------------------
(* C31: a call to a path nothing is registered for                         *)

\* nothing is registered for path P: no node at P that carries a callback, a
\* vtable, an enumerator or the object-manager marker, and no fallback callback
\* or fallback vtable at a prefix of P
NothingRegisteredFor(P) ==
    /\ P \in DOMAIN bus.nodes =>
           /\ bus.nodes[P].callbacks = <<>>
           /\ bus.nodes[P].vtables = <<>>
           /\ bus.nodes[P].enumerators = <<>>
           /\ ~bus.nodes[P].object_manager
    /\ \A j \in 1..Len(object_path_prefixes(P)) :
           LET q == object_path_prefixes(P)[j] IN
           q \in DOMAIN bus.nodes =>
               /\ \A k \in 1..Len(bus.nodes[q].callbacks) : ~bus.nodes[q].callbacks[k].is_fallback
               /\ \A k \in 1..Len(bus.nodes[q].vtables) : ~bus.nodes[q].vtables[k].is_fallback

\* the dispatch of a call has ended without any user callback having run, so
\* with the registrations it started with
EndedUntouched == pc = "done" /\ obs.calls = <<>>

\* C31: a method call addressed to a path for which nothing is registered gets
\* no reply and bus_process_object returns 0; UNKNOWN_METHOD or
\* UNKNOWN_PROPERTY is sent only when a registration made the object exist
\* (found_object) and nothing handled the call.
C31_UnregisteredNoReply ==
    EndedUntouched =>
        /\ NothingRegisteredFor(msg.path) => obs.replies = <<>> /\ fr.r = 0
        /\ (\E k \in 1..Len(obs.replies) :
                obs.replies[k] \in {"UNKNOWN_METHOD", "UNKNOWN_PROPERTY"}) =>
               fr.found_object /\ ~NothingRegisteredFor(msg.path)

\* What the code does: this holds for every call but Properties.GetAll, which a
\* node at a prefix answers whatever it carries.
C31_UnregisteredNoReplyButGetAll ==
    (EndedUntouched /\ msg.member # "GetAll") =>
        /\ NothingRegisteredFor(msg.path) => obs.replies = <<>> /\ fr.r = 0
        /\ (\E k \in 1..Len(obs.replies) :
                obs.replies[k] \in {"UNKNOWN_METHOD", "UNKNOWN_PROPERTY"}) =>
               fr.found_object /\ ~NothingRegisteredFor(msg.path)

----------------------------------------------------------------------------
(* C32: termination of the restart loop of bus_process_object              *)

\* one pass of the do-while loop begins. The observation of the passes before
\* is dropped and the callbacks of every pass may make MaxCbOps registration
\* calls again: the number of passes is not capped.
AttemptAgain ==
    /\ pc = "attempt"
    /\ bus' = [bus EXCEPT !.nodes_modified = FALSE]
    /\ fr' = [fr EXCEPT !.p = msg.path, !.require_fallback = FALSE,
                        !.prefixes = object_path_prefixes(msg.path), !.r = 0]
    /\ obs' = [Obs0 EXCEPT !.attempt = 1]
    /\ cbops' = 0
    /\ pc' = "find_and_run"
    /\ UNCHANGED <<msg, ret, out, access>>

\* the calls dispatched to /a: I.M(s), Properties.Get(I, P),
\* Properties.Get(I, Q), Properties.Set(I, P, v)
RestartMessages ==
    { Message(PA, "I", "M", <<"s">>, "", ""),
      Message(PA, IfProperties, "Get", <<"s", "s">>, "I", "P"),
      Message(PA, IfProperties, "Get", <<"s", "s">>, "I", "Q"),
      Message(PA, IfProperties, "Set", <<"s", "s", "v">>, "I", "P") }

\* vtM or a node callback at /a; the user callbacks called register and remove
\* a node callback at /a/b
RestartNext ==
    \/ pc = "idle" /\ AddObjectVtable(PA, "I", "vtM", "u")
    \/ pc = "idle" /\ AddObject(PA, FALSE, "cb", "u")
    \/ pc # "idle" /\ AddObject(PAB, FALSE, "cb", "u")
    \/ pc # "idle" /\ RemoveObject(PAB, FALSE, "cb", "u")
    \/ \E m \in RestartMessages : StartDispatch(m)
    \/ AttemptAgain
    \/ FindAndRun
    \/ NodeCallbacksRun
    \/ \E rv \in Returns : CallbackReturn(rv)
    \/ MethodLookup
    \/ \E peer \in {[ok |-> TRUE, uid |-> "self", caps |-> {}]} : MethodCallbacksRun(peer)
    \/ MethodFound
    \/ \E rv \in Returns : MethodReturn(rv)
    \/ AfterMethod
    \/ PropertyLookup
    \/ PropertyGetSetCallbacksRun
    \/ \E peer \in {[ok |-> TRUE, uid |-> "self", caps |-> {}]} : PropertyFound(peer)
    \/ \E rv \in {-EINVAL, 0} : GetReturn(rv)
    \/ \E rv \in {-EINVAL, 0} : SetReturn(rv)
    \/ NodeExists
    \/ NodeExistsVtables
    \/ NextPrefix
    \/ LoopEnd
    \/ Finish

\* every step of the engine is taken and every user callback returns
SpecRestart == Init /\ [][RestartNext]_vars /\ WF_vars(RestartNext)

\* C32: bus_process_object terminates whenever every user callback it invokes
\* returns, whatever registrations and removals the callbacks perform each time
\* they are invoked: the restart loop runs finitely many attempts.
C32_Terminates == (pc = "attempt") ~> (pc \in {"done", "crashed"})

\* the dispatch with callbacks that make no registration call: registrations
\* from outside a dispatch only
SpecCallsFair == SpecCalls /\ WF_vars(CallsNext)

\* What the code does: the dispatch ends after one pass when the callbacks
\* leave the registrations alone; a pass is started again only with
\* nodes_modified set by a callback of the pass before.
C32_TerminatesUnmodified ==
    /\ [](pc = "attempt" => obs.attempt = 0)
    /\ (pc = "attempt") ~> (pc = "done")

----------------------------------------------------------------------------
(* C33: the order of the steps of object_find_and_run for one node         *)

\* calls j and k were made by the same call of object_find_and_run
SamePass(j, k) ==
    /\ obs.calls[j].attempt = obs.calls[k].attempt
    /\ obs.calls[j].p = obs.calls[k].p
    /\ obs.calls[j].require_fallback = obs.calls[k].require_fallback

\* in one call of object_find_and_run no node callback is called after a find
\* resolver, a method handler, a getter or a setter
CallbacksFirst ==
    \A j, k \in 1..Len(obs.calls) :
        (j < k /\ SamePass(j, k) /\ obs.calls[k].kind = "callback") =>
            obs.calls[j].kind = "callback"

\* a step of the dispatch after a node callback returned non-zero, or with the
\* non-zero result of node_callbacks_run or of object_find_and_run: the result
\* is handed up unchanged and no handler is called
NonZeroEnds ==
    /\ (pc = "in_callback" /\ \E rv \in {-EINVAL, 1} : CallbackReturn(rv)) =>
           pc' = "after_ncb" /\ fr'.r # 0 /\ obs'.calls = obs.calls
    /\ (pc = "after_ncb" /\ fr.r # 0) =>
           pc' = "ofr_ret" /\ fr'.r = fr.r /\ obs' = obs
    /\ (pc = "ofr_ret" /\ fr.r # 0) =>
           pc' = "done" /\ fr'.r = fr.r /\ obs'.calls = obs.calls /\ obs'.replies = obs.replies
    /\ (pc = "after_ncb" /\ fr.r = 0) =>
           pc' \in {"ofr_ret", "method_run", "props"}
    /\ pc \in {"ncb_loop", "in_callback"} =>
           pc' \in {"ncb_loop", "in_callback", "after_ncb", "crashed"}
    /\ pc \in {"method_run", "method_found", "in_method"} =>
           pc' \in {"method_run", "method_found", "in_method", "in_find", "after_method",
                    "crashed"}
    /\ pc = "after_method" => pc' \in {"after_method", "ofr_ret", "props"}
    /\ (pc' \in {"prop_run", "getall_loop"} /\ pc \notin {"prop_run", "getall_loop"}) =>
           pc \in {"props", "getall_found", "getall_props", "in_find", "in_getall_get"}
    /\ (pc' = "props" /\ pc # "props") => pc \in {"after_ncb", "after_method"}

\* C33: within object_find_and_run for one node, node callbacks run before the
\* vtable method lookup, which runs before the built-in handlers; a non-zero
\* return from a step ends the processing of the message, so a node callback
\* that returns non-zero keeps the method handler and the built-in handlers
\* from running.
C33_CallbacksThenMethodThenBuiltin == []CallbacksFirst /\ [][NonZeroEnds]_vars

\* the dispatch of I.M(s) ended with the non-zero return of the node callback
\* of /a, and the method handler of M registered at /a was not called
C33_Witness ==
    /\ pc = "done"
    /\ msg.interface = "I"
    /\ fr.r # 0
    /\ Key(msg.path, msg.interface, msg.member) \in DOMAIN bus.vtable_methods
    /\ Len(obs.calls) = 1
    /\ obs.calls[1].kind = "callback"
    /\ obs.calls[1].p = msg.path

----------------------------------------------------------------------------
(* C34: which calls a registration is invoked for                          *)

\* the calls dispatched: I.M(s) and Properties.Set(I, P, v) to /a and to /a/b
FallbackMessages ==
    { Message(q, "I", "M", <<"s">>, "", "") : q \in {PA, PAB} }
    \cup { Message(q, IfProperties, "Set", <<"s", "s", "v">>, "I", "P") : q \in {PA, PAB} }

\* node callbacks, fallback or not, at / and /a; vtM at /a; vtM as fallback at
\* / or /a; all registered before the call is dispatched
FallbackNext ==
    \/ pc = "idle" /\ \E q \in {Root, PA}, f \in BOOLEAN : AddObject(q, f, "cb", "u")
    \/ pc = "idle" /\ AddObjectVtable(PA, "I", "vtM", "u")
    \/ pc = "idle" /\ \E q \in {Root, PA} : AddFallbackVtable(q, "I", "vtM", NoFind, "u")
    \/ \E m \in FallbackMessages : StartDispatch(m)
    \/ Attempt
    \/ FindAndRun
    \/ NodeCallbacksRun
    \/ \E rv \in Returns : CallbackReturn(rv)
    \/ MethodLookup
    \/ \E peer \in {[ok |-> TRUE, uid |-> "self", caps |-> {}]} : MethodCallbacksRun(peer)
    \/ MethodFound
    \/ \E rv \in Returns : MethodReturn(rv)
    \/ AfterMethod
    \/ PropertyLookup
    \/ PropertyGetSetCallbacksRun
    \/ \E peer \in {[ok |-> TRUE, uid |-> "self", caps |-> {}]} : PropertyFound(peer)
    \/ \E rv \in {-EINVAL, 0} : SetReturn(rv)
    \/ NodeExists
    \/ NodeExistsVtables
    \/ NextPrefix
    \/ LoopEnd
    \/ Finish

SpecFallback == Init /\ [][FallbackNext]_vars

\* the registration a call was made for is a fallback one
CalledFallback(k) ==
    IF obs.calls[k].kind = "callback"
    THEN Callback(bus, obs.calls[k].who[1]).is_fallback
    ELSE IF obs.calls[k].kind = "method"
    THEN ParentOf(bus, bus.vtable_methods[obs.calls[k].who]).is_fallback
    ELSE ParentOf(bus, bus.vtable_properties[obs.calls[k].who]).is_fallback

\* the path a registration was made at
CalledAt(k) ==
    IF obs.calls[k].kind = "callback"
    THEN CallbackHome(bus, obs.calls[k].who[1])
    ELSE obs.calls[k].who[1]

\* the fallback callbacks registered at the path of the message and above it
FallbackCallbacksFor(P) ==
    UNION {{c.id : c \in {c \in Range(bus.nodes[q].callbacks) : c.is_fallback}} :
           q \in {q \in DOMAIN bus.nodes : q = P \/ q \in Range(object_path_prefixes(P))}}

\* C34: a non-fallback callback or vtable registered at path Q is never
\* invoked for a call addressed to a path other than Q; a fallback callback or
\* vtable registered at Q is invoked for calls addressed to Q itself as well as
\* for calls addressed to descendants of Q.
C34_InvokedForOwnPathOrBelow ==
    /\ \A k \in 1..Len(obs.calls) :
           /\ CalledAt(k) = obs.calls[k].p
           /\ \/ CalledAt(k) = msg.path
              \/ /\ CalledFallback(k)
                 /\ CalledAt(k) \in Range(object_path_prefixes(msg.path))
    /\ obs.ended =>
           \A id \in FallbackCallbacksFor(msg.path) :
               \E k \in 1..Len(obs.calls) :
                   obs.calls[k].kind = "callback" /\ obs.calls[k].who = <<id>>

\* the method handler of the fallback vtable at / was called for a call
\* addressed to /a/b, and the callback registered at /a without fallback was not
C34_Witness ==
    /\ pc = "done"
    /\ msg.path = PAB
    /\ PA \in DOMAIN bus.nodes
    /\ \E c \in Range(bus.nodes[PA].callbacks) : ~c.is_fallback
    /\ \E k \in 1..Len(obs.calls) :
           obs.calls[k].kind = "method" /\ CalledAt(k) = Root /\ CalledFallback(k)
    /\ \A k \in 1..Len(obs.calls) : obs.calls[k].kind # "callback"

----------------------------------------------------------------------------
(* C35: the order in which the callbacks of a node are called              *)

\* SpecFallback registers and never removes, so a registration made later has
\* the greater identity: the callback list of every node has the newest first
NewestFirst ==
    \A q \in DOMAIN bus.nodes :
        \A i, j \in 1..Len(bus.nodes[q].callbacks) :
            i < j => bus.nodes[q].callbacks[i].id > bus.nodes[q].callbacks[j].id

\* C35: node callbacks registered at the same node are invoked most recently
\* registered first: each registration is prepended at the head of the node's
\* callback list and the dispatch iterates from the head.
C35_CallbacksLifo ==
    /\ NewestFirst
    /\ \A j, k \in 1..Len(obs.calls) :
           (/\ j < k
            /\ SamePass(j, k)
            /\ obs.calls[j].kind = "callback"
            /\ obs.calls[k].kind = "callback") =>
               obs.calls[j].who[1] > obs.calls[k].who[1]

\* two callbacks of /a were called for one call, the one registered last first
C35_Witness ==
    /\ pc = "done"
    /\ Len(obs.calls) >= 2
    /\ obs.calls[1].kind = "callback"
    /\ obs.calls[2].kind = "callback"
    /\ obs.calls[1].p = PA
    /\ obs.calls[2].p = PA
    /\ obs.calls[1].who[1] > obs.calls[2].who[1]

----------------------------------------------------------------------------
(* C36: the order of the vtable list of a node                             *)

\* vtM, vtS and vtQ registered for the interfaces I and J at /a and removed
\* again, while fewer than MaxManaged registrations are alive
OrderNext ==
    \/ \E i \in {"I", "J"}, v \in {"vtM", "vtS", "vtQ"} : ManagedAddObjectVtable(PA, i, v, "u")
    \/ \E i \in {"I", "J"}, v \in {"vtM", "vtS", "vtQ"} : RemoveObjectVtable(PA, i, v, "u")

SpecOrder == InitReg /\ [][OrderNext]_vars

\* the vtables of one interface are a contiguous run of the list of every node
Contiguous ==
    \A q \in DOMAIN bus.nodes :
        \A i, j, k \in 1..Len(bus.nodes[q].vtables) :
            (i < j /\ j < k /\ streq(bus.nodes[q].vtables[i].interface,
                                     bus.nodes[q].vtables[k].interface)) =>
                streq(bus.nodes[q].vtables[j].interface, bus.nodes[q].vtables[i].interface)

\* the place of identity id in list s, 0 if it is not there
PlaceOf(s, id) ==
    IF \E i \in 1..Len(s) : s[i].id = id THEN CHOOSE i \in 1..Len(s) : s[i].id = id ELSE 0

\* a registration call on the lists of /a: the vtables that stay keep their
\* order, and a vtable that is new stands after every vtable of its interface
OrderKept ==
    LET old == VtablesAt(bus, PA)
        new == VtablesAt(bus', PA)
    IN  \A i, j \in 1..Len(new) :
            i < j =>
                /\ (PlaceOf(old, new[i].id) # 0 /\ PlaceOf(old, new[j].id) # 0) =>
                       PlaceOf(old, new[i].id) < PlaceOf(old, new[j].id)
                /\ (PlaceOf(old, new[i].id) = 0 /\ PlaceOf(old, new[j].id) # 0) =>
                       ~streq(new[i].interface, new[j].interface)

\* C36: after any sequence of vtable registrations and removals the vtables of
\* one interface on a node form a contiguous run of the node's vtable list and
\* appear in registration order within that run: a new vtable is inserted
\* directly after the last existing vtable of the same interface.
C36_ContiguousInOrder == []Contiguous /\ [][OrderKept]_vars

\* three vtables on /a, two of interface I around the place where the vtable of
\* J would stand had the last one been put at the head or the tail
C36_Witness ==
    /\ PA \in DOMAIN bus.nodes
    /\ Len(bus.nodes[PA].vtables) = 3
    /\ bus.nodes[PA].vtables[1].interface = "J"
    /\ bus.nodes[PA].vtables[2].interface = "I"
    /\ bus.nodes[PA].vtables[3].interface = "I"
    /\ bus.nodes[PA].vtables[3].id > bus.nodes[PA].vtables[2].id

----------------------------------------------------------------------------
(* C37: the ObjectManager interface in the Introspect reply                *)

\* the node at P or the node at an ancestor path of P has the marker
MarkerAtOrAbove(P) ==
    \E k \in 1..Len(Visited(P)) :
        /\ Visited(P)[k] \in DOMAIN bus.nodes
        /\ bus.nodes[Visited(P)[k]].object_manager

\* C37: the Introspect reply for path P declares the interface
\* org.freedesktop.DBus.ObjectManager if and only if the node at P or the node
\* at some ancestor path of P has object_manager set.
C37_ObjectManagerIffMarker ==
    \A P \in IntrospectPaths, found \in BOOLEAN, enumerated \in IntrospectEnumerated :
        LET e == introspect(bus, P, found, enumerated) IN
        e.reply # NoIntrospection =>
            (e.reply.object_manager <=> MarkerAtOrAbove(P))

\* What the code does: the interface is declared only with a marker at P or
\* above, and always with a marker at P or at the root; a marker at an ancestor
\* between them is not seen, the parent of every node being the root.
C37_MarkerAtNodeOrRoot ==
    \A P \in IntrospectPaths, found \in BOOLEAN, enumerated \in IntrospectEnumerated :
        LET e == introspect(bus, P, found, enumerated) IN
        e.reply # NoIntrospection =>
            /\ e.reply.object_manager => MarkerAtOrAbove(P)
            /\ (\E q \in {P, Root} : q \in DOMAIN bus.nodes /\ bus.nodes[q].object_manager) =>
                   e.reply.object_manager

----------------------------------------------------------------------------
(* C38: GetManagedObjects on an object-manager node without child paths    *)

ManagedOpened == {0, 1}
ManagedEnumerated == {{}, {PAB}}

\* the node n has a vtable that the require_fallback filter lets through
HasMatchingVtable(n, require_fallback) ==
    \E k \in 1..Len(bus.nodes[n].vtables) :
        ~(require_fallback /\ ~bus.nodes[n].vtables[k].is_fallback)

\* the node n is under an object manager and get_child_nodes finds no path
ManagerWithoutChildren(n, enumerated) ==
    /\ n \in DOMAIN bus.nodes
    /\ bus_node_with_object_manager(bus, n)
    /\ get_child_nodes(bus, n, n, enumerated) = {}

\* C38: GetManagedObjects on an object-manager node that has no child paths
\* returns 0 without a reply only when the node has no vtable matching
\* require_fallback; when the node has at least one such vtable a reply with an
\* empty dict is sent.
C38_EmptyDictWhenVtable ==
    \A n \in {Root, PA}, require_fallback \in BOOLEAN, found \in BOOLEAN,
       opened \in ManagedOpened, enumerated \in ManagedEnumerated :
        ManagerWithoutChildren(n, enumerated) =>
            LET e == process_get_managed_objects(bus, n, n, require_fallback, found, opened,
                                                 enumerated) IN
            /\ (e.r = 0 /\ e.reply = NoManaged) => ~HasMatchingVtable(n, require_fallback)
            /\ HasMatchingVtable(n, require_fallback) =>
                   e.r = 1 /\ e.reply = ManagedObjects(n, <<>>)

\* What the code does: the loop over the vtables tests the value that
\* sd_bus_message_open_container returned, so the empty dict is sent exactly
\* when the node has a matching vtable and that value was positive.
C38_EmptyDictWhenOpenedPositive ==
    \A n \in {Root, PA}, require_fallback \in BOOLEAN, found \in BOOLEAN,
       opened \in ManagedOpened, enumerated \in ManagedEnumerated :
        ManagerWithoutChildren(n, enumerated) =>
            LET e == process_get_managed_objects(bus, n, n, require_fallback, found, opened,
                                                 enumerated) IN
            IF opened > 0 /\ HasMatchingVtable(n, require_fallback)
            THEN e.r = 1 /\ e.reply = ManagedObjects(n, <<>>)
            ELSE e.r = 0 /\ e.reply = NoManaged

----------------------------------------------------------------------------
(* C39: get_child_nodes with enumerators that return a string vector       *)

\* object_path_is_valid: a slash first, no two slashes in a row, and no
\* slash at the end of a path other than /
object_path_is_valid(p) ==
    /\ p # <<>>
    /\ p[1] = "/"
    /\ \A i \in 1..(Len(p) - 1) : ~(p[i] = "/" /\ p[i + 1] = "/")
    /\ Len(p) > 1 => p[Len(p)] # "/"

BadPath == <<"/", "a", "/">>

\* what an enumerator callback hands back in *children
ChildrenVectors ==
    {<<>>, <<PAB>>, <<PAB, PAB>>, <<PA, PAB>>, <<Root, PAB>>, <<BadPath>>, <<PAB, BadPath>>,
     <<BadPath, PAB>>}

\* the vectors handed back in the calls that are made
CalledVectors == {<<PAB, PAB>>, <<Root, PAB>>, <<BadPath, PAB>>}

\* set_consume on a set kept in insertion order: [r, s]
set_consume(s, k) ==
    IF \E i \in 1..Len(s) : streq(s[i], k) THEN [r |-> -EEXIST, s |-> s]
    ELSE [r |-> 1, s |-> Append(s, k)]

\* the STRV_FOREACH of add_enumerated_to_set from element i on: [r, s]
RECURSIVE consume_children(_, _, _, _, _)
consume_children(prefix, children, i, r, s) ==
    IF i > Len(children) THEN [r |-> r, s |-> s]
    ELSE IF r < 0 THEN consume_children(prefix, children, i + 1, r, s)
    ELSE IF ~object_path_is_valid(children[i])
         THEN consume_children(prefix, children, i + 1, -EINVAL, s)
    ELSE IF ~object_path_startswith(children[i], prefix)
         THEN consume_children(prefix, children, i + 1, r, s)
    ELSE LET c == set_consume(s, children[i])
         IN  consume_children(prefix, children, i + 1, IF c.r = -EEXIST THEN 0 ELSE c.r, c.s)

\* add_enumerated_to_set from element i of the list on, every callback
\* returning 0 and children; modifying says that a callback changes the
\* registrations, modified is bus->nodes_modified: [r, s, modified]
RECURSIVE add_enumerated_to_set_strv(_, _, _, _, _, _, _)
add_enumerated_to_set_strv(prefix, first, i, s, children, modifying, modified) ==
    IF i > Len(first) \/ modified THEN [r |-> 0, s |-> s, modified |-> modified]
    ELSE LET c == consume_children(prefix, children, 1, 0, s)
         IN  IF c.r < 0 THEN [r |-> c.r, s |-> c.s, modified |-> modifying]
             ELSE add_enumerated_to_set_strv(prefix, first, i + 1, c.s, children, modifying,
                                             modifying)

RECURSIVE add_subtree_to_set_strv(_, _, _, _, _, _, _)
RECURSIVE add_children_to_set_strv(_, _, _, _, _, _, _, _)
\* the LIST_FOREACH of add_subtree_to_set over n->child from element i on
add_children_to_set_strv(b, prefix, list, i, s, children, modifying, modified) ==
    IF i > Len(list) THEN [r |-> 0, s |-> s, modified |-> modified]
    ELSE IF ~object_path_startswith(list[i], prefix)
         THEN add_children_to_set_strv(b, prefix, list, i + 1, s, children, modifying, modified)
    ELSE LET e == add_subtree_to_set_strv(b, prefix, list[i], set_consume(s, list[i]).s,
                                          children, modifying, modified)
         IN  IF e.r < 0 \/ e.modified THEN e
             ELSE add_children_to_set_strv(b, prefix, list, i + 1, e.s, children, modifying,
                                           e.modified)

add_subtree_to_set_strv(b, prefix, n, s, children, modifying, modified) ==
    LET e == add_enumerated_to_set_strv(prefix, b.nodes[n].enumerators, 1, s, children,
                                        modifying, modified)
    IN  IF e.r < 0 \/ e.modified THEN e
        ELSE add_children_to_set_strv(b, prefix, b.nodes[n].child, 1, e.s, children, modifying,
                                      e.modified)

\* get_child_nodes: [r, s, modified], s empty when the set was freed
get_child_nodes_strv(b, prefix, n, children, modifying) ==
    LET e == add_subtree_to_set_strv(b, prefix, n, <<>>, children, modifying, b.nodes_modified)
    IN  IF e.r < 0 THEN [e EXCEPT !.s = <<>>] ELSE e

NoChildNodes == [prefix |-> NoPath, n |-> NoPath, children |-> <<>>, modifying |-> FALSE, s |-> <<>>]

\* a call of get_child_nodes made by a dispatch, which has cleared
\* nodes_modified before
GetChildNodes(prefix, n, children, modifying) ==
    /\ pc = "idle"
    /\ n \in DOMAIN bus.nodes
    /\ object_path_startswith(prefix, n)
    /\ \E e \in {get_child_nodes_strv([bus EXCEPT !.nodes_modified = FALSE], prefix, n,
                                      children, modifying)} :
       /\ bus' = [bus EXCEPT !.nodes_modified = e.modified]
       /\ ret' = e.r
       /\ out' = [prefix |-> prefix, n |-> n, children |-> children, modifying |-> modifying,
                  s |-> e.s]
    /\ UNCHANGED <<pc, msg, fr, obs, cbops, access>>

ChildrenNext ==
    \/ \E q \in Paths : ManagedAddObjectVtable(q, "I", "vtM", "u")
    \/ \E q \in Paths : ManagedAddNodeEnumerator(q, "en", "u")
    \/ \E q \in Paths : RemoveNodeEnumerator(q, "en", "u")
    \/ \E prefix \in Paths, n \in Paths, children \in CalledVectors, modifying \in BOOLEAN :
            GetChildNodes(prefix, n, children, modifying)

InitChildren ==
    /\ bus = Bus0(FALSE, FALSE)
    /\ pc = "idle"
    /\ msg = NoMsg
    /\ fr = Frame0
    /\ obs = Obs0
    /\ ret = 0
    /\ cbops = 0
    /\ out = NoChildNodes
    /\ access = NoAcc

SpecChildren == InitChildren /\ [][ChildrenNext]_vars

\* the nodes whose enumerators get_child_nodes(prefix, n) has to ask: n and
\* every node below n that is at or below prefix
SubtreeOf(prefix, n) ==
    {n} \cup {q \in DOMAIN bus.nodes :
                  q # n /\ object_path_startswith(q, n) /\ object_path_startswith(q, prefix)}

Yielded(nodes, children) ==
    IF \E q \in nodes : bus.nodes[q].enumerators # <<>> THEN Range(children) ELSE {}

NoDuplicates(s) == \A i, j \in 1..Len(s) : s[i] = s[j] => i = j

\* the result of get_child_nodes(prefix, n) when the enumerators of nodes are
\* asked and the nodes of nodes other than n are the static descendants
ChildNodesOver(nodes, prefix, n, children) ==
    LET e == get_child_nodes_strv([bus EXCEPT !.nodes_modified = FALSE], prefix, n, children,
                                  FALSE)
    IN  IF \E k \in Yielded(nodes, children) : ~object_path_is_valid(k)
        THEN e.r = -EINVAL
        ELSE /\ e.r = 0
             /\ NoDuplicates(e.s)
             /\ \A i \in 1..Len(e.s) :
                    object_path_is_valid(e.s[i]) /\ object_path_startswith(e.s[i], prefix)
             /\ Range(e.s) = (nodes \ {n})
                                 \cup {k \in Yielded(nodes, children) :
                                           object_path_startswith(k, prefix)}

\* C39: get_child_nodes(prefix, node) returns a duplicate-free set of valid
\* object paths starting with prefix: every static descendant node under prefix
\* plus every path yielded by the enumerators of the subtree; a yielded path
\* outside prefix is dropped, a path already present is ignored, and an invalid
\* object path makes the operation fail with -EINVAL.
C39_ChildNodes ==
    \A prefix \in Paths, n \in DOMAIN bus.nodes, children \in ChildrenVectors :
        object_path_startswith(prefix, n) =>
            ChildNodesOver(SubtreeOf(prefix, n), prefix, n, children)

\* the nodes the walk over the child lists reaches: from / every node at or
\* below prefix, from another node no node but itself
WalkedFrom(prefix, n) == IF n = Root THEN SubtreeOf(prefix, n) ELSE {n}

\* What the code does: the same result computed over the nodes that the child
\* lists link to n, and nothing after an enumerator that changed the
\* registrations.
C39_ChildNodesOfWalk ==
    \A prefix \in Paths, n \in DOMAIN bus.nodes, children \in ChildrenVectors :
        object_path_startswith(prefix, n) =>
            /\ ChildNodesOver(WalkedFrom(prefix, n), prefix, n, children)
            /\ \A q \in DOMAIN bus.nodes : q # Root => bus.nodes[q].child = <<>>
            /\ LET e == get_child_nodes_strv([bus EXCEPT !.nodes_modified = FALSE], prefix, n,
                                             children, TRUE)
               IN  /\ e.r \in {0, -EINVAL}
                   /\ e.modified <=> \E q \in WalkedFrom(prefix, n) :
                                         bus.nodes[q].enumerators # <<>>
                   /\ ~e.modified =>
                          e = get_child_nodes_strv([bus EXCEPT !.nodes_modified = FALSE],
                                                   prefix, n, children, FALSE)
                   /\ \A i \in 1..Len(e.s) : object_path_startswith(e.s[i], prefix)

----------------------------------------------------------------------------
(* C40: a successful add undone by the matching remove                     *)

\* the nodes with their lists and links, and both indices
Registered(b) == <<b.nodes, b.vtable_methods, b.vtable_properties>>

\* the remove that followed the add a returned 1 and left what was registered
\* in the store before
Undone(a, r) == a.r = 0 => (r.r = 1 /\ Registered(r.bus) = Registered(bus))

\* C40: for any reachable store, a successful add (add_object, add_fallback,
\* add_object_vtable, add_fallback_vtable, add_node_enumerator, or
\* add_object_manager on a path without the marker) immediately followed by the
\* matching remove with the same arguments returns 1 and restores the set of
\* nodes, every node's registration lists and parent/child links, and both
\* indices to their contents before the add.
C40_AddThenRemoveRestores ==
    /\ \A q \in Paths, f \in BOOLEAN, cb \in CallbackFns, u \in Userdatas :
           LET a == bus_add_object(bus, f, q, cb, u, NewId)
           IN  Undone(a, bus_remove_object(a.bus, f, q, cb, u))
    /\ \A q \in Paths, i \in Interfaces \cup {IfPeer}, v \in Vtables, f \in BOOLEAN,
          fn \in Finds, u \in Userdatas :
           (f \/ fn = NoFind) =>
               LET a == add_object_vtable_internal(bus, q, i, v, f, fn, u, NewId)
               IN  Undone(a, remove_object_vtable_internal(a.bus, q, i, v, f, fn, u))
    /\ \A q \in Paths, en \in EnumeratorFns, u \in Userdatas :
           LET a == sd_bus_add_node_enumerator(bus, q, en, u, NewId)
           IN  Undone(a, sd_bus_remove_node_enumerator(a.bus, q, en, u))
    /\ \A q \in Paths :
           (q \notin DOMAIN bus.nodes \/ ~bus.nodes[q].object_manager) =>
               LET a == sd_bus_add_object_manager(bus, q)
               IN  Undone(a, sd_bus_remove_object_manager(a.bus, q))

\* a store that holds a callback at /a and an indexed vtable, to which the
\* add of the same callback at /a and the add of a marker at /a/b, a node
\* that is not there, both succeed
C40_Witness ==
    /\ PA \in DOMAIN bus.nodes
    /\ PAB \notin DOMAIN bus.nodes
    /\ DOMAIN bus.vtable_methods # {}
    /\ \E k \in 1..Len(bus.nodes[PA].callbacks) :
           /\ bus.nodes[PA].callbacks[k].callback = "cb"
           /\ bus.nodes[PA].callbacks[k].userdata = "u"
           /\ ~bus.nodes[PA].callbacks[k].is_fallback
    /\ LET a == bus_add_object(bus, FALSE, PA, "cb", "u", NewId)
       IN  /\ a.r = 0
           /\ Len(a.bus.nodes[PA].callbacks) = Len(bus.nodes[PA].callbacks) + 1
           /\ bus_remove_object(a.bus, FALSE, PA, "cb", "u").r = 1
    /\ LET a == sd_bus_add_object_manager(bus, PAB)
       IN  /\ a.r = 0
           /\ PAB \in DOMAIN a.bus.nodes
           /\ sd_bus_remove_object_manager(a.bus, PAB).r = 1
====
